---------------------------- MODULE Spec2Model ----------------------------
(***************************************************************************)
(* A model of the static-site generator generate.js: the delimited-text    *)
(* parser parseCSV, the placeholder renderer render, the per-row site      *)
(* assembler generateSite and the batch driver main.                       *)
(*                                                                         *)
(* Text is a sequence of one-character strings, so that scanning,          *)
(* trimming, slugifying and substituting are computed character by         *)
(* character, as the code computes them.  Indexes are 1-based: the code's  *)
(* csvText[i] is csvText[i] here with i one larger.                        *)
(***************************************************************************)
EXTENDS Integers, Sequences, FiniteSets, TLC

VARIABLES
    \* parseCSV (src/generate.js 17-78)
    csvText,      \* the text handed to parseCSV
    table,        \* the table csvText was serialized from (<<>> when it was not)
    i,            \* the scan position
    inQuotes,     \* quoted mode
    field,        \* the field being accumulated
    fields,       \* the fields of the record being accumulated
    allRows,      \* the retained records
    parsePc,      \* "scan" | "returned" | "exit"
    parsed,       \* the rows parseCSV returned
    \* render (src/generate.js 89-93)
    template,     \* the template handed to render
    data,         \* the mapping handed to render
    renderPc,     \* "call" | "done"
    rendered,     \* the string render returned
    \* main and generateSite (src/generate.js 314-486)
    csvExists,    \* fs.existsSync(csvFile)
    csvRows,      \* the rows parseCSV gives for the file (<<>>: it ends the process)
    filterDomain, \* the --domain argument (<<>> when absent)
    tpls,         \* the six template files
    imageFiles,   \* the file names of a site's images directory
    pc,           \* "start" | "loop" | "done" | "exit"
    rows,         \* the rows main iterates over
    rowIdx,       \* the position of the loop in rows
    results,      \* the results array of main
    stdout,       \* what console.log printed
    stderr,       \* what console.error printed
    exitCode,     \* the exit status (-1 while running)
    fs,           \* the files under the output directory: path -> content
    dirs,         \* the directories under the output directory
    calls,        \* the calls of generateSite so far: the row, and whether it threw
    site,         \* the last site generateSite completed
    \* slugify (src/generate.js 82-87, src/generate-images.js 57-59)
    slugIn,       \* the text slugify is called with
    slugPc,       \* "idle" | "call" | "done"
    slugOut       \* the string slugify returned

csvVars == <<csvText, table, i, inQuotes, field, fields, allRows, parsePc, parsed>>

rndVars == <<template, data, renderPc, rendered>>

mainVars == <<csvExists, csvRows, filterDomain, tpls, imageFiles, pc, rows, rowIdx,
              results, stdout, stderr, exitCode, fs, dirs, calls, site>>

slugVars == <<slugIn, slugPc, slugOut>>

vars == <<csvVars, rndVars, mainVars, slugVars>>

nonCsvVars == <<rndVars, mainVars, slugVars>>
nonRndVars == <<csvVars, mainVars, slugVars>>
nonMainVars == <<csvVars, rndVars, slugVars>>
nonSlugVars == <<csvVars, rndVars, mainVars>>

-----------------------------------------------------------------------------
(* Bounds of the model *)

\* longest text handed to parseCSV in SpecCSV
MaxTextLen == 5
\* most cells (header fields plus data fields) of a table in SpecRoundTrip
MaxCells == 4
\* most pieces a template of SpecRender is put together from
MaxPieces == 3
\* most rows of the CSV of a batch run of Spec
MaxRows == 2
\* most records of a table of SpecRecords
MaxRecords == 3
\* longest text over SlugAlphabet handed to slugify in SpecSlug
MaxSlugLen == 4

-----------------------------------------------------------------------------
(* Text helpers *)

Min(S) == CHOOSE x \in S : \A y \in S : x <= y
Max(S) == CHOOSE x \in S : \A y \in S : x >= y
Range(s) == {s[k] : k \in DOMAIN s}

\* what indexing past the end of a string or reading a missing property gives
Undefined == "undefined"

\* csvText[i + 1] and the like: a character, or undefined past the end
CharAt(text, k) == IF k \in 1..Len(text) THEN text[k] ELSE Undefined

Q == "\""

\* the white space String.prototype.trim removes, as far as the model's
\* alphabets hold it
WhiteSpace == {" ", "\t", "\n", "\r"}

\* s.trim()
Trim(s) ==
    LET keep == {k \in 1..Len(s) : s[k] \notin WhiteSpace}
    IN  IF keep = {} THEN <<>> ELSE SubSeq(s, Min(keep), Max(keep))

RECURSIVE Join(_, _)
\* parts.join(sep)
Join(parts, sep) ==
    IF parts = <<>> THEN <<>>
    ELSE IF Len(parts) = 1 THEN parts[1]
    ELSE parts[1] \o sep \o Join(Tail(parts), sep)

\* all texts over an alphabet, up to a length
TextsUpTo(chars, n) == UNION {[1..k -> chars] : k \in 0..n}

-----------------------------------------------------------------------------
(* parseCSV *)

\* fields.some(f => f.trim())
SomeNonBlank(rec) == \E k \in 1..Len(rec) : Trim(rec[k]) # <<>>

\* a seeded fault: a record is retained whether blank or not
PushRecord_KeepsBlank(all, rec) == Append(all, rec)

\* if (fields.some(f => f.trim())) allRows.push(fields)
PushRecord(all, rec) == IF SomeNonBlank(rec) THEN Append(all, rec) ELSE all

Scanning == parsePc = "scan" /\ i <= Len(csvText)

\* a seeded fault: the second quote of an escaped pair is not skipped (no i++)
ScanEscapedQuote_NoSkip ==
    /\ Scanning /\ inQuotes
    /\ csvText[i] = Q /\ CharAt(csvText, i + 1) = Q
    /\ field' = Append(field, Q)
    /\ i' = i + 1
    /\ UNCHANGED <<csvText, table, inQuotes, fields, allRows, parsePc, parsed, nonCsvVars>>

\* inQuotes, c === '"', csvText[i + 1] === '"': an escaped quote
ScanEscapedQuote ==
    /\ Scanning /\ inQuotes
    /\ csvText[i] = Q /\ CharAt(csvText, i + 1) = Q
    /\ field' = Append(field, Q)
    /\ i' = i + 2
    /\ UNCHANGED <<csvText, table, inQuotes, fields, allRows, parsePc, parsed, nonCsvVars>>

\* inQuotes, c === '"', the next character no quote: end of quoted mode
ScanCloseQuote ==
    /\ Scanning /\ inQuotes
    /\ csvText[i] = Q /\ CharAt(csvText, i + 1) # Q
    /\ inQuotes' = FALSE
    /\ i' = i + 1
    /\ UNCHANGED <<csvText, table, field, fields, allRows, parsePc, parsed, nonCsvVars>>

\* a seeded fault: a comma in quoted mode ends the field
ScanQuotedChar_CommaSplits ==
    /\ Scanning /\ inQuotes
    /\ csvText[i] # Q
    /\ IF csvText[i] = ","
       THEN fields' = Append(fields, field) /\ field' = <<>>
       ELSE field' = Append(field, csvText[i]) /\ fields' = fields
    /\ i' = i + 1
    /\ UNCHANGED <<csvText, table, inQuotes, allRows, parsePc, parsed, nonCsvVars>>

\* inQuotes, any other character: field += c
ScanQuotedChar ==
    /\ Scanning /\ inQuotes
    /\ csvText[i] # Q
    /\ field' = Append(field, csvText[i])
    /\ i' = i + 1
    /\ UNCHANGED <<csvText, table, inQuotes, fields, allRows, parsePc, parsed, nonCsvVars>>

\* not inQuotes, c === '"': start of quoted mode
ScanOpenQuote ==
    /\ Scanning /\ ~inQuotes
    /\ csvText[i] = Q
    /\ inQuotes' = TRUE
    /\ i' = i + 1
    /\ UNCHANGED <<csvText, table, field, fields, allRows, parsePc, parsed, nonCsvVars>>

\* not inQuotes, c === ',': the field ends
ScanComma ==
    /\ Scanning /\ ~inQuotes
    /\ csvText[i] = ","
    /\ fields' = Append(fields, field)
    /\ field' = <<>>
    /\ i' = i + 1
    /\ UNCHANGED <<csvText, table, inQuotes, allRows, parsePc, parsed, nonCsvVars>>

\* not inQuotes, c === '\n' || c === '\r': the record ends; \r\n is one break
ScanRecordBreak ==
    /\ Scanning /\ ~inQuotes
    /\ csvText[i] \in {"\n", "\r"}
    /\ i' = IF csvText[i] = "\r" /\ CharAt(csvText, i + 1) = "\n" THEN i + 2 ELSE i + 1
    /\ allRows' = PushRecord(allRows, Append(fields, field))
    /\ fields' = <<>>
    /\ field' = <<>>
    /\ UNCHANGED <<csvText, table, inQuotes, parsePc, parsed, nonCsvVars>>

\* not inQuotes, any other character: field += c
ScanPlainChar ==
    /\ Scanning /\ ~inQuotes
    /\ csvText[i] \notin {Q, ",", "\n", "\r"}
    /\ field' = Append(field, csvText[i])
    /\ i' = i + 1
    /\ UNCHANGED <<csvText, table, inQuotes, fields, allRows, parsePc, parsed, nonCsvVars>>

\* (allRows[i][idx] || '').trim()
CellValue(rec, idx) == Trim(IF idx <= Len(rec) THEN rec[idx] ELSE <<>>)

\* a seeded fault: the first column of a name gives its value, not the last
MakeRow_FirstWins(headers, rec) ==
    [h \in Range(headers) |->
        CellValue(rec, Min({k \in 1..Len(headers) : headers[k] = h}))]

\* headers.forEach((h, idx) => { row[h] = ... }): a later column of the same
\* name overwrites an earlier one
MakeRow(headers, rec) ==
    [h \in Range(headers) |->
        CellValue(rec, Max({k \in 1..Len(headers) : headers[k] = h}))]

\* const headers = allRows[0].map(h => h.trim()); one row per later record
BuildRows(all) ==
    LET headers == [k \in 1..Len(all[1]) |-> Trim(all[1][k])]
    IN  [r \in 1..(Len(all) - 1) |-> MakeRow(headers, all[r + 1])]

\* after the loop: fields.push(field), the last record retained if not blank
LastFields == Append(fields, field)
FinalRows == PushRecord(allRows, LastFields)

\* allRows.length < 2: console.error, process.exit(1)
ParseExit ==
    /\ parsePc = "scan" /\ i > Len(csvText)
    /\ Len(FinalRows) < 2
    /\ fields' = LastFields
    /\ allRows' = FinalRows
    /\ parsePc' = "exit"
    /\ UNCHANGED <<csvText, table, i, inQuotes, field, parsed, nonCsvVars>>

\* a seeded fault: one retained record is enough to return
ParseReturn_OneSuffices ==
    /\ parsePc = "scan" /\ i > Len(csvText)
    /\ Len(FinalRows) >= 1
    /\ fields' = LastFields
    /\ allRows' = FinalRows
    /\ parsed' = BuildRows(FinalRows)
    /\ parsePc' = "returned"
    /\ UNCHANGED <<csvText, table, i, inQuotes, field, nonCsvVars>>

\* otherwise the rows are built and returned
ParseReturn ==
    /\ parsePc = "scan" /\ i > Len(csvText)
    /\ Len(FinalRows) >= 2
    /\ fields' = LastFields
    /\ allRows' = FinalRows
    /\ parsed' = BuildRows(FinalRows)
    /\ parsePc' = "returned"
    /\ UNCHANGED <<csvText, table, i, inQuotes, field, nonCsvVars>>

ParseStep ==
    \/ ScanEscapedQuote
    \/ ScanCloseQuote
    \/ ScanQuotedChar
    \/ ScanOpenQuote
    \/ ScanComma
    \/ ScanRecordBreak
    \/ ScanPlainChar
    \/ ParseExit
    \/ ParseReturn

\* the state on entry to parseCSV(text)
ParseEntry(text) ==
    /\ csvText = text
    /\ i = 1
    /\ inQuotes = FALSE
    /\ field = <<>>
    /\ fields = <<>>
    /\ allRows = <<>>
    /\ parsePc = "scan"
    /\ parsed = <<>>

\* the characters of the texts of SpecCSV
CsvChars == {"a", " ", ",", Q, "\n", "\r"}

\* render is not running
IdleRender ==
    /\ template = <<>>
    /\ data = <<>>
    /\ renderPc = "idle"
    /\ rendered = <<>>

\* parseCSV is not running
IdleCSV ==
    /\ csvText = <<>>
    /\ table = <<>>
    /\ i = 1
    /\ inQuotes = FALSE
    /\ field = <<>>
    /\ fields = <<>>
    /\ allRows = <<>>
    /\ parsePc = "idle"
    /\ parsed = <<>>

\* no site generated yet
NoSite == [row |-> <<>>]

\* main is not running
IdleMain ==
    /\ csvExists = FALSE
    /\ csvRows = <<>>
    /\ filterDomain = <<>>
    /\ tpls = <<>>
    /\ imageFiles = <<>>
    /\ pc = "idle"
    /\ rows = <<>>
    /\ rowIdx = 1
    /\ results = <<>>
    /\ stdout = <<>>
    /\ stderr = <<>>
    /\ exitCode = -1
    /\ fs = <<>>
    /\ dirs = {}
    /\ calls = <<>>
    /\ site = NoSite

\* slugify is not being called on its own
IdleSlug ==
    /\ slugIn = <<>>
    /\ slugPc = "idle"
    /\ slugOut = <<>>

InitCSV ==
    /\ \E text \in TextsUpTo(CsvChars, MaxTextLen) : ParseEntry(text)
    /\ table = <<>>
    /\ IdleRender
    /\ IdleMain
    /\ IdleSlug

NextCSV == ParseStep

\* parseCSV on every text over CsvChars up to MaxTextLen
SpecCSV == InitCSV /\ [][NextCSV]_vars


-----------------------------------------------------------------------------
(* render *)

LowerChars ==
    << "a", "b", "c", "d", "e", "f", "g", "h", "i", "j", "k", "l", "m",
       "n", "o", "p", "q", "r", "s", "t", "u", "v", "w", "x", "y", "z" >>
UpperChars ==
    << "A", "B", "C", "D", "E", "F", "G", "H", "I", "J", "K", "L", "M",
       "N", "O", "P", "Q", "R", "S", "T", "U", "V", "W", "X", "Y", "Z" >>
Digits == {"0", "1", "2", "3", "4", "5", "6", "7", "8", "9"}

\* \w of a regular expression: [A-Za-z0-9_]
WordChars == Range(LowerChars) \cup Range(UpperChars) \cup Digits \cup {"_"}

\* the length of the longest run of word characters of tpl starting at p
RECURSIVE WordRun(_, _)
WordRun(tpl, p) ==
    IF p <= Len(tpl) /\ tpl[p] \in WordChars THEN 1 + WordRun(tpl, p + 1) ELSE 0

\* /\{\{(\w+)\}\}/ tried at position p: the position of the last character
\* of the match, or 0 when there is none.  \w+ is greedy, and giving back a
\* word character never helps, since a closing brace must follow.
MatchEnd(tpl, p) ==
    LET w == WordRun(tpl, p + 2)
    IN  IF /\ CharAt(tpl, p) = "{" /\ CharAt(tpl, p + 1) = "{"
           /\ w >= 1
           /\ CharAt(tpl, p + 2 + w) = "}" /\ CharAt(tpl, p + 3 + w) = "}"
        THEN p + 3 + w
        ELSE 0

\* data[key] !== undefined ? data[key] : match
Replacement(d, key, match) == IF key \in DOMAIN d THEN d[key] ELSE match

\* String.prototype.replace with a global pattern and a function: the
\* matches are found left to right in the template, each from the end of
\* the one before; what the function returns is put in as it is
RECURSIVE ReplaceFrom(_, _, _)
ReplaceFrom(tpl, d, p) ==
    IF p > Len(tpl) THEN <<>>
    ELSE LET e == MatchEnd(tpl, p)
         IN  IF e = 0
             THEN <<tpl[p]>> \o ReplaceFrom(tpl, d, p + 1)
             ELSE Replacement(d, SubSeq(tpl, p + 2, e - 2), SubSeq(tpl, p, e))
                      \o ReplaceFrom(tpl, d, e + 1)

\* a seeded fault: the result is scanned again
render_Rescan(tpl, d) == ReplaceFrom(ReplaceFrom(tpl, d, 1), d, 1)

\* render(template, data)
render(tpl, d) == ReplaceFrom(tpl, d, 1)

\* the call of render returns
RenderCall ==
    /\ renderPc = "call"
    /\ rendered' = render(template, data)
    /\ renderPc' = "done"
    /\ UNCHANGED <<template, data, nonRndVars>>

\* the pieces the templates of SpecRender are put together from
TplPieces ==
    { <<"{", "{", "a", "}", "}">>, <<"{", "{", "b", "}", "}">>,
      <<"{", "{", "c", "}", "}">>,
      <<"{">>, <<"}">>, <<"{", "{">>, <<"}", "}">>, <<"a">>, <<"-">> }

RECURSIVE Flatten(_)
Flatten(parts) == IF parts = <<>> THEN <<>> ELSE Head(parts) \o Flatten(Tail(parts))

RenderTemplates ==
    {Flatten(ps) : ps \in UNION {[1..n -> TplPieces] : n \in 1..MaxPieces}}

\* the mappings of SpecRender: a is absent, or plain, or empty, or holds a
\* token-like text; b is absent or plain; c is always absent
RenderData ==
    LET aVals == { <<"X">>, <<>>, <<"{", "{", "b", "}", "}">> }
        bVals == { <<"Y">> }
    IN  {<<>>}
        \cup {(<<"a">> :> va) : va \in aVals}
        \cup {(<<"b">> :> vb) : vb \in bVals}
        \cup {(<<"a">> :> va) @@ (<<"b">> :> vb) : va \in aVals, vb \in bVals}

InitRender ==
    /\ template \in RenderTemplates
    /\ data \in RenderData
    /\ renderPc = "call"
    /\ rendered = <<>>
    /\ IdleCSV
    /\ IdleMain
    /\ IdleSlug

NextRender == RenderCall

\* render on every template of RenderTemplates with every mapping of RenderData
SpecRender == InitRender /\ [][NextRender]_vars

-----------------------------------------------------------------------------
(* slugify *)

ToLowerChar(c) ==
    IF \E k \in DOMAIN UpperChars : UpperChars[k] = c
    THEN LowerChars[CHOOSE k \in DOMAIN UpperChars : UpperChars[k] = c]
    ELSE c

ToUpperChar(c) ==
    IF \E k \in DOMAIN LowerChars : LowerChars[k] = c
    THEN UpperChars[CHOOSE k \in DOMAIN LowerChars : LowerChars[k] = c]
    ELSE c

\* text.toLowerCase()
toLowerCase(text) == [k \in 1..Len(text) |-> ToLowerChar(text[k])]

\* [a-z0-9]
SlugChars == Range(LowerChars) \cup Digits

\* the text after its leading characters outside [a-z0-9]
RECURSIVE SkipRun(_)
SkipRun(text) ==
    IF text # <<>> /\ Head(text) \notin SlugChars THEN SkipRun(Tail(text)) ELSE text

\* a seeded fault: every character outside [a-z0-9] becomes a hyphen of its own
RECURSIVE HyphenateRuns_EachChar(_)
HyphenateRuns_EachChar(text) ==
    IF text = <<>> THEN <<>>
    ELSE (IF Head(text) \in SlugChars THEN <<Head(text)>> ELSE <<"-">>)
         \o HyphenateRuns_EachChar(Tail(text))

\* .replace(/[^a-z0-9]+/g, '-')
RECURSIVE HyphenateRuns(_)
HyphenateRuns(text) ==
    IF text = <<>> THEN <<>>
    ELSE IF Head(text) \in SlugChars
    THEN <<Head(text)>> \o HyphenateRuns(Tail(text))
    ELSE <<"-">> \o HyphenateRuns(SkipRun(text))

\* .replace(/^-+|-+$/g, '')
StripHyphens(text) ==
    LET keep == {k \in 1..Len(text) : text[k] # "-"}
    IN  IF keep = {} THEN <<>> ELSE SubSeq(text, Min(keep), Max(keep))

\* slugify(text)
slugify(text) == StripHyphens(HyphenateRuns(toLowerCase(text)))

-----------------------------------------------------------------------------
(* Configuration, column names and the fields of the Derived Data *)

\* path.join(PROJECT_ROOT, 'output'), relative to the project root
OUTPUT_DIR == <<"o", "u", "t", "p", "u", "t">>
DEFAULT_COLOR == <<"#", "1", "3", "7", "f", "e", "c">>
\* new Date().toISOString().split('T')[0], fixed for the run
TODAY == <<"2", "0", "2", "4", "-", "0", "5", "-", "0", "1">>

K_domain == <<"d", "o", "m", "a", "i", "n">>
K_brand_name == <<"b", "r", "a", "n", "d", "_", "n", "a", "m", "e">>
K_primary_keyword == <<"p", "r", "i", "m", "a", "r", "y",
        "_", "k", "e", "y", "w", "o", "r", "d">>
K_primary_color == <<"p", "r", "i", "m", "a", "r", "y",
        "_", "c", "o", "l", "o", "r">>
K_collection_title == <<"c", "o", "l", "l", "e", "c", "t",
        "i", "o", "n", "_", "t", "i", "t", "l", "e">>
K_product_name == <<"p", "r", "o", "d", "u", "c", "t",
        "_", "n", "a", "m", "e">>
K_product_price == <<"p", "r", "o", "d", "u", "c", "t",
        "_", "p", "r", "i", "c", "e">>
K_product_original_price == <<"p", "r", "o", "d", "u", "c", "t",
        "_", "o", "r", "i", "g", "i", "n", "a", "l", "_", "p", "r",
        "i", "c", "e">>
K_product_features == <<"p", "r", "o", "d", "u", "c", "t",
        "_", "f", "e", "a", "t", "u", "r", "e", "s">>
K_blog1_title == <<"b", "l", "o", "g", "1", "_", "t",
        "i", "t", "l", "e">>
K_blog2_title == <<"b", "l", "o", "g", "2", "_", "t",
        "i", "t", "l", "e">>
K_blog3_title == <<"b", "l", "o", "g", "3", "_", "t",
        "i", "t", "l", "e">>
K_blog1_meta_description == <<"b", "l", "o", "g", "1", "_", "m",
        "e", "t", "a", "_", "d", "e", "s", "c", "r", "i", "p", "t",
        "i", "o", "n">>
K_blog2_meta_description == <<"b", "l", "o", "g", "2", "_", "m",
        "e", "t", "a", "_", "d", "e", "s", "c", "r", "i", "p", "t",
        "i", "o", "n">>
K_blog3_meta_description == <<"b", "l", "o", "g", "3", "_", "m",
        "e", "t", "a", "_", "d", "e", "s", "c", "r", "i", "p", "t",
        "i", "o", "n">>
K_blog1_content == <<"b", "l", "o", "g", "1", "_", "c",
        "o", "n", "t", "e", "n", "t">>
K_blog2_content == <<"b", "l", "o", "g", "2", "_", "c",
        "o", "n", "t", "e", "n", "t">>
K_blog3_content == <<"b", "l", "o", "g", "3", "_", "c",
        "o", "n", "t", "e", "n", "t">>

K_collection_slug == <<"c", "o", "l", "l", "e", "c", "t",
        "i", "o", "n", "_", "s", "l", "u", "g">>
K_product_slug == <<"p", "r", "o", "d", "u", "c", "t",
        "_", "s", "l", "u", "g">>
K_blog1_slug == <<"b", "l", "o", "g", "1", "_", "s", "l", "u", "g">>
K_blog2_slug == <<"b", "l", "o", "g", "2", "_", "s", "l", "u", "g">>
K_blog3_slug == <<"b", "l", "o", "g", "3", "_", "s", "l", "u", "g">>
K_brand_initial == <<"b", "r", "a", "n", "d", "_", "i",
        "n", "i", "t", "i", "a", "l">>
K_blog_date == <<"b", "l", "o", "g", "_", "d", "a", "t", "e">>
K_product_original_price_html == <<"p", "r", "o", "d", "u", "c", "t",
        "_", "o", "r", "i", "g", "i", "n", "a", "l", "_", "p", "r",
        "i", "c", "e", "_", "h", "t", "m", "l">>
K_product_features_html == <<"p", "r", "o", "d", "u", "c", "t",
        "_", "f", "e", "a", "t", "u", "r", "e", "s", "_", "h", "t",
        "m", "l">>
K_homepage_schema == <<"h", "o", "m", "e", "p", "a", "g",
        "e", "_", "s", "c", "h", "e", "m", "a">>
K_collection_schema == <<"c", "o", "l", "l", "e", "c", "t",
        "i", "o", "n", "_", "s", "c", "h", "e", "m", "a">>
K_product_schema == <<"p", "r", "o", "d", "u", "c", "t",
        "_", "s", "c", "h", "e", "m", "a">>
K_HEADER == <<"H", "E", "A", "D", "E", "R">>
K_FOOTER == <<"F", "O", "O", "T", "E", "R">>

K_image_hero == <<"i", "m", "a", "g", "e", "_", "h", "e", "r", "o">>
K_image_product_main == <<"i", "m", "a", "g", "e", "_", "p",
        "r", "o", "d", "u", "c", "t", "_", "m", "a", "i", "n">>
K_image_product_2 == <<"i", "m", "a", "g", "e", "_", "p",
        "r", "o", "d", "u", "c", "t", "_", "2">>
K_image_product_3 == <<"i", "m", "a", "g", "e", "_", "p",
        "r", "o", "d", "u", "c", "t", "_", "3">>
K_image_product_4 == <<"i", "m", "a", "g", "e", "_", "p",
        "r", "o", "d", "u", "c", "t", "_", "4">>
K_image_product_5 == <<"i", "m", "a", "g", "e", "_", "p",
        "r", "o", "d", "u", "c", "t", "_", "5">>
K_image_collection_1 == <<"i", "m", "a", "g", "e", "_", "c",
        "o", "l", "l", "e", "c", "t", "i", "o", "n", "_", "1">>
K_image_collection_2 == <<"i", "m", "a", "g", "e", "_", "c",
        "o", "l", "l", "e", "c", "t", "i", "o", "n", "_", "2">>
K_image_blog_hero == <<"i", "m", "a", "g", "e", "_", "b",
        "l", "o", "g", "_", "h", "e", "r", "o">>

K_blog_title == <<"b", "l", "o", "g", "_", "t", "i", "t", "l", "e">>
K_blog_slug == <<"b", "l", "o", "g", "_", "s", "l", "u", "g">>
K_blog_meta_description == <<"b", "l", "o", "g", "_", "m", "e",
        "t", "a", "_", "d", "e", "s", "c", "r", "i", "p", "t", "i",
        "o", "n">>
K_blog_content == <<"b", "l", "o", "g", "_", "c", "o",
        "n", "t", "e", "n", "t">>
K_blog_schema == <<"b", "l", "o", "g", "_", "s", "c",
        "h", "e", "m", "a">>
K_sidebar_related_articles == <<"s", "i", "d", "e", "b", "a", "r",
        "_", "r", "e", "l", "a", "t", "e", "d", "_", "a", "r", "t",
        "i", "c", "l", "e", "s">>

\* the columns of the rows of the model: the ones generateSite reads, but
\* for product_description, collection_description and
\* collection_meta_description, which the input of the model does not have
Columns ==
    { K_domain, K_brand_name, K_primary_keyword, K_primary_color,
      K_collection_title, K_product_name, K_product_price,
      K_product_original_price, K_product_features,
      K_blog1_title, K_blog2_title, K_blog3_title,
      K_blog1_meta_description, K_blog2_meta_description,
      K_blog3_meta_description,
      K_blog1_content, K_blog2_content, K_blog3_content }

BlogTitleKeys == <<K_blog1_title, K_blog2_title, K_blog3_title>>
BlogMetaKeys ==
    <<K_blog1_meta_description, K_blog2_meta_description, K_blog3_meta_description>>
BlogContentKeys == <<K_blog1_content, K_blog2_content, K_blog3_content>>
BlogSlugKeys == <<K_blog1_slug, K_blog2_slug, K_blog3_slug>>
BlogDefaultTitles == <<<<"b", "l", "o", "g", "-", "p", "o",
        "s", "t", "-", "1">>, <<"b", "l", "o", "g", "-", "p", "o",
        "s", "t", "-", "2">>, <<"b", "l", "o", "g", "-", "p", "o",
        "s", "t", "-", "3">>>>

\* a || b on strings: a when it is not empty
OrElse(a, b) == IF a # <<>> THEN a ELSE b

-----------------------------------------------------------------------------
(* Fragments and structured-data documents *)

\* JSON.stringify of a string, without the quotes around it
RECURSIVE JsonEscape(_)
JsonEscape(text) ==
    IF text = <<>> THEN <<>>
    ELSE (CASE Head(text) = Q -> <<"\\", Q>>
            [] Head(text) = "\\" -> <<"\\", "\\">>
            [] Head(text) = "\n" -> <<"\\", "n">>
            [] Head(text) = "\r" -> <<"\\", "r">>
            [] Head(text) = "\t" -> <<"\\", "t">>
            [] OTHER -> <<Head(text)>>) \o JsonEscape(Tail(text))

JsonString(text) == <<Q>> \o JsonEscape(text) \o <<Q>>

\* generateOrganizationSchema(data): JSON.stringify(..., null, 2)
generateOrganizationSchema(d) ==
    <<"{", "\n", " ", " ", "\"", "@", "c",
        "o", "n", "t", "e", "x", "t", "\"", ":", " ", "\"", "h", "t",
        "t", "p", "s", ":", "/", "/", "s", "c", "h", "e", "m", "a",
        ".", "o", "r", "g", "\"", ",", "\n", " ", " ", "\"", "@", "t",
        "y", "p", "e", "\"", ":", " ", "\"", "O", "r", "g", "a", "n",
        "i", "z", "a", "t", "i", "o", "n", "\"", ",", "\n", " ", " ",
        "\"", "n", "a", "m", "e", "\"", ":", " ">>
    \o JsonString(d[K_brand_name])
    \o <<",", "\n", " ", " ", "\"", "u", "r",
        "l", "\"", ":", " ">> \o JsonString(<<"h", "t", "t", "p", "s", ":", "/", "/">> \o d[K_domain])
    \o <<",", "\n", " ", " ", "\"", "l", "o",
        "g", "o", "\"", ":", " ">>
    \o JsonString(<<"h", "t", "t", "p", "s", ":", "/", "/">> \o d[K_domain] \o <<"/", "l", "o", "g", "o", ".", "p", "n", "g">>)
    \o <<",", "\n", " ", " ", "\"", "s", "a",
        "m", "e", "A", "s", "\"", ":", " ", "[", "]", "\n", "}">>

\* data.product_price.replace(/[^0-9.]/g, '')
PriceNumber(text) == SelectSeq(text, LAMBDA c : c \in Digits \cup {"."})

\* generateProductSchema(data); the row has no product_description, and
\* JSON.stringify leaves an undefined member out
generateProductSchema(d) ==
    <<"{", "\n", " ", " ", "\"", "@", "c",
        "o", "n", "t", "e", "x", "t", "\"", ":", " ", "\"", "h", "t",
        "t", "p", "s", ":", "/", "/", "s", "c", "h", "e", "m", "a",
        ".", "o", "r", "g", "\"", ",", "\n", " ", " ", "\"", "@", "t",
        "y", "p", "e", "\"", ":", " ", "\"", "P", "r", "o", "d", "u",
        "c", "t", "\"", ",", "\n", " ", " ", "\"", "n", "a", "m", "e",
        "\"", ":", " ">>
    \o JsonString(d[K_product_name])
    \o <<",", "\n", " ", " ", "\"", "b", "r",
        "a", "n", "d", "\"", ":", " ", "{", "\n", " ", " ", " ", " ",
        "\"", "@", "t", "y", "p", "e", "\"", ":", " ", "\"", "B", "r",
        "a", "n", "d", "\"", ",", "\n", " ", " ", " ", " ", "\"", "n",
        "a", "m", "e", "\"", ":", " ">>
    \o JsonString(d[K_brand_name])
    \o <<"\n", " ", " ", "}", ",", "\n", " ",
        " ", "\"", "o", "f", "f", "e", "r", "s", "\"", ":", " ", "{",
        "\n", " ", " ", " ", " ", "\"", "@", "t", "y", "p", "e", "\"",
        ":", " ", "\"", "O", "f", "f", "e", "r", "\"", ",", "\n", " ",
        " ", " ", " ", "\"", "u", "r", "l", "\"", ":", " ">>
    \o JsonString(<<"h", "t", "t", "p", "s", ":", "/", "/">> \o d[K_domain] \o <<"/", "p", "r", "o", "d", "u", "c", "t", "s", "/">>
                  \o d[K_product_slug] \o <<".", "h", "t", "m", "l">>)
    \o <<",", "\n", " ", " ", " ", " ", "\"",
        "p", "r", "i", "c", "e", "C", "u", "r", "r", "e", "n", "c",
        "y", "\"", ":", " ", "\"", "U", "S", "D", "\"", ",", "\n", " ",
        " ", " ", " ", "\"", "p", "r", "i", "c", "e", "\"", ":", " ">>
    \o JsonString(PriceNumber(d[K_product_price]))
    \o <<",", "\n", " ", " ", " ", " ", "\"",
        "a", "v", "a", "i", "l", "a", "b", "i", "l", "i", "t", "y",
        "\"", ":", " ", "\"", "h", "t", "t", "p", "s", ":", "/", "/",
        "s", "c", "h", "e", "m", "a", ".", "o", "r", "g", "/", "I",
        "n", "S", "t", "o", "c", "k", "\"", ",", "\n", " ", " ", " ",
        " ", "\"", "s", "e", "l", "l", "e", "r", "\"", ":", " ", "{",
        "\n", " ", " ", " ", " ", " ", " ", "\"", "@", "t", "y", "p",
        "e", "\"", ":", " ", "\"", "O", "r", "g", "a", "n", "i", "z",
        "a", "t", "i", "o", "n", "\"", ",", "\n", " ", " ", " ", " ",
        " ", " ", "\"", "n", "a", "m", "e", "\"", ":", " ">>
    \o JsonString(d[K_brand_name])
    \o <<"\n", " ", " ", " ", " ", "}", "\n",
        " ", " ", "}", ",", "\n", " ", " ", "\"", "a", "g", "g", "r",
        "e", "g", "a", "t", "e", "R", "a", "t", "i", "n", "g", "\"",
        ":", " ", "{", "\n", " ", " ", " ", " ", "\"", "@", "t", "y",
        "p", "e", "\"", ":", " ", "\"", "A", "g", "g", "r", "e", "g",
        "a", "t", "e", "R", "a", "t", "i", "n", "g", "\"", ",", "\n",
        " ", " ", " ", " ", "\"", "r", "a", "t", "i", "n", "g", "V",
        "a", "l", "u", "e", "\"", ":", " ", "\"", "4", ".", "5", "\"",
        ",", "\n", " ", " ", " ", " ", "\"", "r", "e", "v", "i", "e",
        "w", "C", "o", "u", "n", "t", "\"", ":", " ", "\"", "1", "2",
        "8", "\"", "\n", " ", " ", "}", "\n", "}">>

\* generateArticleSchema(data, blogTitle, blogSlug, blogDescription)
generateArticleSchema(d, blogTitle, blogSlug, blogDescription) ==
    <<"{", "\n", " ", " ", "\"", "@", "c",
        "o", "n", "t", "e", "x", "t", "\"", ":", " ", "\"", "h", "t",
        "t", "p", "s", ":", "/", "/", "s", "c", "h", "e", "m", "a",
        ".", "o", "r", "g", "\"", ",", "\n", " ", " ", "\"", "@", "t",
        "y", "p", "e", "\"", ":", " ", "\"", "A", "r", "t", "i", "c",
        "l", "e", "\"", ",", "\n", " ", " ", "\"", "h", "e", "a", "d",
        "l", "i", "n", "e", "\"", ":", " ">>
    \o JsonString(blogTitle)
    \o <<",", "\n", " ", " ", "\"", "d", "e",
        "s", "c", "r", "i", "p", "t", "i", "o", "n", "\"", ":", " ">> \o JsonString(blogDescription)
    \o <<",", "\n", " ", " ", "\"", "a", "u",
        "t", "h", "o", "r", "\"", ":", " ", "{", "\n", " ", " ", " ",
        " ", "\"", "@", "t", "y", "p", "e", "\"", ":", " ", "\"", "O",
        "r", "g", "a", "n", "i", "z", "a", "t", "i", "o", "n", "\"",
        ",", "\n", " ", " ", " ", " ", "\"", "n", "a", "m", "e", "\"",
        ":", " ">>
    \o JsonString(d[K_brand_name])
    \o <<"\n", " ", " ", "}", ",", "\n", " ",
        " ", "\"", "p", "u", "b", "l", "i", "s", "h", "e", "r", "\"",
        ":", " ", "{", "\n", " ", " ", " ", " ", "\"", "@", "t", "y",
        "p", "e", "\"", ":", " ", "\"", "O", "r", "g", "a", "n", "i",
        "z", "a", "t", "i", "o", "n", "\"", ",", "\n", " ", " ", " ",
        " ", "\"", "n", "a", "m", "e", "\"", ":", " ">>
    \o JsonString(d[K_brand_name])
    \o <<",", "\n", " ", " ", " ", " ", "\"",
        "l", "o", "g", "o", "\"", ":", " ", "{", "\n", " ", " ", " ",
        " ", " ", " ", "\"", "@", "t", "y", "p", "e", "\"", ":", " ",
        "\"", "I", "m", "a", "g", "e", "O", "b", "j", "e", "c", "t",
        "\"", ",", "\n", " ", " ", " ", " ", " ", " ", "\"", "u", "r",
        "l", "\"", ":", " ">>
    \o JsonString(<<"h", "t", "t", "p", "s", ":", "/", "/">> \o d[K_domain] \o <<"/", "l", "o", "g", "o", ".", "p", "n", "g">>)
    \o <<"\n", " ", " ", " ", " ", "}", "\n",
        " ", " ", "}", ",", "\n", " ", " ", "\"", "d", "a", "t", "e",
        "P", "u", "b", "l", "i", "s", "h", "e", "d", "\"", ":", " ">> \o JsonString(TODAY)
    \o <<",", "\n", " ", " ", "\"", "d", "a",
        "t", "e", "M", "o", "d", "i", "f", "i", "e", "d", "\"", ":",
        " ">> \o JsonString(TODAY)
    \o <<",", "\n", " ", " ", "\"", "m", "a",
        "i", "n", "E", "n", "t", "i", "t", "y", "O", "f", "P", "a",
        "g", "e", "\"", ":", " ", "{", "\n", " ", " ", " ", " ", "\"",
        "@", "t", "y", "p", "e", "\"", ":", " ", "\"", "W", "e", "b",
        "P", "a", "g", "e", "\"", ",", "\n", " ", " ", " ", " ", "\"",
        "@", "i", "d", "\"", ":", " ">>
    \o JsonString(<<"h", "t", "t", "p", "s", ":", "/", "/">> \o d[K_domain] \o <<"/", "b", "l", "o", "g", "/">> \o blogSlug
                  \o <<".", "h", "t", "m", "l">>)
    \o <<"\n", " ", " ", "}", "\n", "}">>

\* generateCollectionSchema(data); the row has neither
\* collection_description nor collection_meta_description, so the
\* description member is left out
generateCollectionSchema(d) ==
    <<"{", "\n", " ", " ", "\"", "@", "c",
        "o", "n", "t", "e", "x", "t", "\"", ":", " ", "\"", "h", "t",
        "t", "p", "s", ":", "/", "/", "s", "c", "h", "e", "m", "a",
        ".", "o", "r", "g", "\"", ",", "\n", " ", " ", "\"", "@", "t",
        "y", "p", "e", "\"", ":", " ", "\"", "C", "o", "l", "l", "e",
        "c", "t", "i", "o", "n", "P", "a", "g", "e", "\"", ",", "\n",
        " ", " ", "\"", "n", "a", "m", "e", "\"", ":", " ">>
    \o JsonString(d[K_collection_title])
    \o <<",", "\n", " ", " ", "\"", "u", "r",
        "l", "\"", ":", " ">>
    \o JsonString(<<"h", "t", "t", "p", "s", ":", "/", "/">> \o d[K_domain] \o <<"/", "c", "o", "l", "l", "e", "c",
        "t", "i", "o", "n", "s", "/">>
                  \o d[K_collection_slug] \o <<".", "h", "t", "m", "l">>)
    \o <<",", "\n", " ", " ", "\"", "i", "s",
        "P", "a", "r", "t", "O", "f", "\"", ":", " ", "{", "\n", " ",
        " ", " ", " ", "\"", "@", "t", "y", "p", "e", "\"", ":", " ",
        "\"", "W", "e", "b", "S", "i", "t", "e", "\"", ",", "\n", " ",
        " ", " ", " ", "\"", "n", "a", "m", "e", "\"", ":", " ">>
    \o JsonString(d[K_brand_name])
    \o <<",", "\n", " ", " ", " ", " ", "\"",
        "u", "r", "l", "\"", ":", " ">> \o JsonString(<<"h", "t", "t", "p", "s", ":", "/", "/">> \o d[K_domain])
    \o <<"\n", " ", " ", "}", "\n", "}">>

\* text.includes(sub)
Includes(text, sub) ==
    \E p \in 1..(Len(text) - Len(sub) + 1) : SubSeq(text, p, p + Len(sub) - 1) = sub

\* the priority generateSitemap gives a page
SitemapPriority(p) ==
    IF p = <<"/">> THEN <<"1", ".", "0">>
    ELSE IF Includes(p, <<"/", "p", "r", "o", "d", "u", "c", "t", "s", "/">>) THEN <<"0", ".", "9">>
    ELSE <<"0", ".", "8">>

\* one <url> element of generateSitemap
SitemapUrl(domain, p) ==
    <<" ", " ", "<", "u", "r", "l", ">",
        "\n", " ", " ", " ", " ", "<", "l", "o", "c", ">", "h", "t",
        "t", "p", "s", ":", "/", "/">> \o domain \o p
    \o <<"<", "/", "l", "o", "c", ">", "\n",
        " ", " ", " ", " ", "<", "l", "a", "s", "t", "m", "o", "d",
        ">">> \o TODAY
    \o <<"<", "/", "l", "a", "s", "t", "m",
        "o", "d", ">", "\n", " ", " ", " ", " ", "<", "c", "h", "a",
        "n", "g", "e", "f", "r", "e", "q", ">", "w", "e", "e", "k",
        "l", "y", "<", "/", "c", "h", "a", "n", "g", "e", "f", "r",
        "e", "q", ">", "\n", " ", " ", " ", " ", "<", "p", "r", "i",
        "o", "r", "i", "t", "y", ">">>
    \o SitemapPriority(p) \o <<"<", "/", "p", "r", "i", "o", "r",
        "i", "t", "y", ">", "\n", " ", " ", "<", "/", "u", "r", "l",
        ">">>

\* generateSitemap(domain, pages)
generateSitemap(domain, pages) ==
    <<"<", "?", "x", "m", "l", " ", "v",
        "e", "r", "s", "i", "o", "n", "=", "\"", "1", ".", "0", "\"",
        " ", "e", "n", "c", "o", "d", "i", "n", "g", "=", "\"", "U",
        "T", "F", "-", "8", "\"", "?", ">", "\n", "<", "u", "r", "l",
        "s", "e", "t", " ", "x", "m", "l", "n", "s", "=", "\"", "h",
        "t", "t", "p", ":", "/", "/", "w", "w", "w", ".", "s", "i",
        "t", "e", "m", "a", "p", "s", ".", "o", "r", "g", "/", "s",
        "c", "h", "e", "m", "a", "s", "/", "s", "i", "t", "e", "m",
        "a", "p", "/", "0", ".", "9", "\"", ">", "\n">>
    \o Join([k \in 1..Len(pages) |-> SitemapUrl(domain, pages[k])], <<"\n">>)
    \o <<"\n", "<", "/", "u", "r", "l", "s", "e", "t", ">">>

\* generateRobotsTxt(domain)
generateRobotsTxt(domain) ==
    <<"U", "s", "e", "r", "-", "a", "g",
        "e", "n", "t", ":", " ", "*", "\n", "A", "l", "l", "o", "w",
        ":", " ", "/", "\n", "\n", "S", "i", "t", "e", "m", "a", "p",
        ":", " ", "h", "t", "t", "p", "s", ":", "/", "/">> \o domain
    \o <<"/", "s", "i", "t", "e", "m", "a",
        "p", ".", "x", "m", "l">>

\* the character U+0060 of the text of generateServerJs, which a string of
\* this language cannot hold
BackQuote == "U+0060"

\* generateServerJs()
generateServerJs ==
    <<"c", "o", "n", "s", "t", " ", "e",
        "x", "p", "r", "e", "s", "s", " ", "=", " ", "r", "e", "q",
        "u", "i", "r", "e", "(", "'", "e", "x", "p", "r", "e", "s",
        "s", "'", ")", ";", "\n", "c", "o", "n", "s", "t", " ", "p",
        "a", "t", "h", " ", "=", " ", "r", "e", "q", "u", "i", "r",
        "e", "(", "'", "p", "a", "t", "h", "'", ")", ";", "\n", "c",
        "o", "n", "s", "t", " ", "a", "p", "p", " ", "=", " ", "e",
        "x", "p", "r", "e", "s", "s", "(", ")", ";", "\n", "c", "o",
        "n", "s", "t", " ", "P", "O", "R", "T", " ", "=", " ", "p",
        "r", "o", "c", "e", "s", "s", ".", "e", "n", "v", ".", "P",
        "O", "R", "T", " ", "|", "|", " ", "3", "0", "0", "0", ";",
        "\n", "\n", "/", "/", " ", "S", "e", "r", "v", "e", " ", "s",
        "t", "a", "t", "i", "c", " ", "f", "i", "l", "e", "s", "\n",
        "a", "p", "p", ".", "u", "s", "e", "(", "e", "x", "p", "r",
        "e", "s", "s", ".", "s", "t", "a", "t", "i", "c", "(", "p",
        "a", "t", "h", ".", "j", "o", "i", "n", "(", "_", "_", "d",
        "i", "r", "n", "a", "m", "e", ")", ")", ")", ";", "\n", "\n",
        "/", "/", " ", "H", "a", "n", "d", "l", "e", " ", "c", "l",
        "e", "a", "n", " ", "U", "R", "L", "s", " ", "(", "o", "p",
        "t", "i", "o", "n", "a", "l", ")", "\n", "a", "p", "p", ".",
        "g", "e", "t", "(", "'", "*", "'", ",", " ", "(", "r", "e",
        "q", ",", " ", "r", "e", "s", ")", " ", "=", ">", " ", "{",
        "\n", " ", " ", "c", "o", "n", "s", "t", " ", "f", "i", "l",
        "e", "P", "a", "t", "h", " ", "=", " ", "p", "a", "t", "h",
        ".", "j", "o", "i", "n", "(", "_", "_", "d", "i", "r", "n",
        "a", "m", "e", ",", " ", "r", "e", "q", ".", "p", "a", "t",
        "h", ")", ";", "\n", " ", " ", "i", "f", " ", "(", "r", "e",
        "q", "u", "i", "r", "e", "(", "'", "f", "s", "'", ")", ".",
        "e", "x", "i", "s", "t", "s", "S", "y", "n", "c", "(", "f",
        "i", "l", "e", "P", "a", "t", "h", ")", ")", " ", "{", "\n",
        " ", " ", " ", " ", "r", "e", "s", ".", "s", "e", "n", "d",
        "F", "i", "l", "e", "(", "f", "i", "l", "e", "P", "a", "t",
        "h", ")", ";", "\n", " ", " ", "}", " ", "e", "l", "s", "e",
        " ", "{", "\n", " ", " ", " ", " ", "r", "e", "s", ".", "s",
        "t", "a", "t", "u", "s", "(", "4", "0", "4", ")", ".", "s",
        "e", "n", "d", "F", "i", "l", "e", "(", "p", "a", "t", "h",
        ".", "j", "o", "i", "n", "(", "_", "_", "d", "i", "r", "n",
        "a", "m", "e", ",", " ", "'", "i", "n", "d", "e", "x", ".",
        "h", "t", "m", "l", "'", ")", ")", ";", "\n", " ", " ", "}",
        "\n", "}", ")", ";", "\n", "\n", "a", "p", "p", ".", "l", "i",
        "s", "t", "e", "n", "(", "P", "O", "R", "T", ",", " ", "(",
        ")", " ", "=", ">", " ", "{", "\n", " ", " ", "c", "o", "n",
        "s", "o", "l", "e", ".", "l", "o", "g", "(", BackQuote, "S", "e",
        "r", "v", "e", "r", " ", "r", "u", "n", "n", "i", "n", "g",
        " ", "o", "n", " ", "p", "o", "r", "t", " ", "$", "{", "P",
        "O", "R", "T", "}", BackQuote, ")", ";", "\n", "}", ")", ";">>

\* generatePackageJson(domainSlug)
generatePackageJson(domainSlug) ==
    <<"{", "\n", " ", " ", "\"", "n", "a",
        "m", "e", "\"", ":", " ">> \o JsonString(domainSlug)
    \o <<",", "\n", " ", " ", "\"", "v", "e",
        "r", "s", "i", "o", "n", "\"", ":", " ", "\"", "1", ".", "0",
        ".", "0", "\"", ",", "\n", " ", " ", "\"", "s", "c", "r", "i",
        "p", "t", "s", "\"", ":", " ", "{", "\n", " ", " ", " ", " ",
        "\"", "s", "t", "a", "r", "t", "\"", ":", " ", "\"", "n", "o",
        "d", "e", " ", "s", "e", "r", "v", "e", "r", ".", "j", "s",
        "\"", "\n", " ", " ", "}", ",", "\n", " ", " ", "\"", "d", "e",
        "p", "e", "n", "d", "e", "n", "c", "i", "e", "s", "\"", ":",
        " ", "{", "\n", " ", " ", " ", " ", "\"", "e", "x", "p", "r",
        "e", "s", "s", "\"", ":", " ", "\"", "^", "4", ".", "1", "8",
        ".", "0", "\"", "\n", " ", " ", "}", "\n", "}">>

\* blogs.filter(b => b.slug !== currentSlug)
RelatedBlogs(blogs, currentSlug) ==
    SelectSeq(blogs, LAMBDA b : b.slug # currentSlug)

\* one <article> element of generateRelatedArticlesHTML
RelatedArticle(b, blogImagePath) ==
    <<"<", "a", "r", "t", "i", "c", "l",
        "e", " ", "c", "l", "a", "s", "s", "=", "\"", "g", "r", "o",
        "u", "p", "\"", ">", "\n", "<", "a", " ", "c", "l", "a", "s",
        "s", "=", "\"", "b", "l", "o", "c", "k", "\"", " ", "h", "r",
        "e", "f", "=", "\"", "/", "b", "l", "o", "g", "/">> \o b.slug
    \o <<".", "h", "t", "m", "l", "\"", ">",
        "\n", "<", "d", "i", "v", " ", "c", "l", "a", "s", "s", "=",
        "\"", "a", "s", "p", "e", "c", "t", "-", "v", "i", "d", "e",
        "o", " ", "r", "o", "u", "n", "d", "e", "d", "-", "l", "g",
        " ", "o", "v", "e", "r", "f", "l", "o", "w", "-", "h", "i",
        "d", "d", "e", "n", " ", "m", "b", "-", "3", "\"", ">", "\n",
        "<", "i", "m", "g", " ", "a", "l", "t", "=", "\"">>
    \o b.title
    \o <<"\"", " ", "c", "l", "a", "s", "s",
        "=", "\"", "w", "-", "f", "u", "l", "l", " ", "h", "-", "f",
        "u", "l", "l", " ", "o", "b", "j", "e", "c", "t", "-", "c",
        "o", "v", "e", "r", " ", "g", "r", "o", "u", "p", "-", "h",
        "o", "v", "e", "r", ":", "s", "c", "a", "l", "e", "-", "1",
        "0", "5", " ", "t", "r", "a", "n", "s", "i", "t", "i", "o",
        "n", "-", "t", "r", "a", "n", "s", "f", "o", "r", "m", " ",
        "d", "u", "r", "a", "t", "i", "o", "n", "-", "5", "0", "0",
        "\"", " ", "s", "r", "c", "=", "\"">>
    \o blogImagePath
    \o <<"\"", "/", ">", "\n", "<", "/", "d",
        "i", "v", ">", "\n", "<", "h", "5", " ", "c", "l", "a", "s",
        "s", "=", "\"", "f", "o", "n", "t", "-", "b", "o", "l", "d",
        " ", "t", "e", "x", "t", "-", "s", "l", "a", "t", "e", "-",
        "9", "0", "0", " ", "d", "a", "r", "k", ":", "t", "e", "x",
        "t", "-", "w", "h", "i", "t", "e", " ", "g", "r", "o", "u",
        "p", "-", "h", "o", "v", "e", "r", ":", "t", "e", "x", "t",
        "-", "p", "r", "i", "m", "a", "r", "y", " ", "t", "r", "a",
        "n", "s", "i", "t", "i", "o", "n", "-", "c", "o", "l", "o",
        "r", "s", " ", "l", "e", "a", "d", "i", "n", "g", "-", "s",
        "n", "u", "g", "\"", ">">>
    \o b.title
    \o <<"<", "/", "h", "5", ">", "\n", "<",
        "p", " ", "c", "l", "a", "s", "s", "=", "\"", "t", "e", "x",
        "t", "-", "x", "s", " ", "t", "e", "x", "t", "-", "s", "l",
        "a", "t", "e", "-", "4", "0", "0", " ", "m", "t", "-", "2",
        "\"", ">", "5", " ", "m", "i", "n", " ", "r", "e", "a", "d",
        "<", "/", "p", ">", "\n", "<", "/", "a", ">", "\n", "<", "/",
        "a", "r", "t", "i", "c", "l", "e", ">">>

\* generateRelatedArticlesHTML(blogs, currentSlug, blogImagePath)
generateRelatedArticlesHTML(blogs, currentSlug, blogImagePath) ==
    LET listed == RelatedBlogs(blogs, currentSlug)
    IN  Join([k \in 1..Len(listed) |-> RelatedArticle(listed[k], blogImagePath)],
             <<"\n">>)

\* str.split(sep), sep one character
RECURSIVE Split(_, _)
Split(text, sep) ==
    LET at == {k \in 1..Len(text) : text[k] = sep}
    IN  IF at = {} THEN <<text>>
        ELSE <<SubSeq(text, 1, Min(at) - 1)>>
                 \o Split(SubSeq(text, Min(at) + 1, Len(text)), sep)

\* generateFeaturesHTML(featuresStr)
generateFeaturesHTML(featuresStr) ==
    IF featuresStr = <<>> THEN <<>>
    ELSE LET parts == Split(featuresStr, "|")
             features == SelectSeq([k \in 1..Len(parts) |-> Trim(parts[k])],
                                   LAMBDA f : f # <<>>)
         IN  IF features = <<>> THEN <<>>
             ELSE <<"<", "u", "l", " ", "c", "l", "a",
        "s", "s", "=", "\"", "l", "i", "s", "t", "-", "d", "i", "s",
        "c", " ", "p", "l", "-", "4", " ", "s", "p", "a", "c", "e",
        "-", "y", "-", "1", "\"", ">", "\n">>
                  \o Join([k \in 1..Len(features) |->
                              <<" ", " ", "<", "l", "i", ">">> \o features[k] \o <<"<", "/", "l", "i", ">">>], <<"\n">>)
                  \o <<"\n", "<", "/", "u", "l", ">">>

\* a seeded fault: the struck-through price without the SALE marker
OriginalPriceHTML_NoMarker(price) ==
    IF price # <<>>
    THEN <<"<", "p", " ", "c", "l", "a", "s",
           "s", "=", "\"", "t", "e", "x", "t", "-", "l", "g", " ", "t",
           "e", "x", "t", "-", "s", "l", "a", "t", "e", "-", "4", "0",
           "0", " ", "l", "i", "n", "e", "-", "t", "h", "r", "o", "u",
           "g", "h", "\"", ">">> \o price \o <<"<", "/", "p", ">">>
    ELSE <<>>

\* the sale price-comparison fragment of generateSite
OriginalPriceHTML(price) ==
    IF price # <<>>
    THEN <<"<", "p", " ", "c", "l", "a", "s",
        "s", "=", "\"", "t", "e", "x", "t", "-", "l", "g", " ", "t",
        "e", "x", "t", "-", "s", "l", "a", "t", "e", "-", "4", "0",
        "0", " ", "l", "i", "n", "e", "-", "t", "h", "r", "o", "u",
        "g", "h", "\"", ">">> \o price
         \o <<"<", "/", "p", ">", "\n", "<", "s",
        "p", "a", "n", " ", "c", "l", "a", "s", "s", "=", "\"", "b",
        "g", "-", "p", "r", "i", "m", "a", "r", "y", "/", "1", "0",
        " ", "t", "e", "x", "t", "-", "p", "r", "i", "m", "a", "r",
        "y", " ", "t", "e", "x", "t", "-", "x", "s", " ", "f", "o",
        "n", "t", "-", "b", "o", "l", "d", " ", "p", "x", "-", "2",
        " ", "p", "y", "-", "1", " ", "r", "o", "u", "n", "d", "e",
        "d", "\"", ">", "S", "A", "L", "E", "<", "/", "s", "p", "a",
        "n", ">">>
    ELSE <<>>

-----------------------------------------------------------------------------
(* generateSite *)

\* the slugs generateSite computes from the row
SlugFields(row) ==
    (K_collection_slug :>
        slugify(OrElse(row[K_collection_title], row[K_primary_keyword])))
    @@ (K_product_slug :> slugify(OrElse(row[K_product_name], row[K_primary_keyword])))
    @@ (K_blog1_slug :> slugify(OrElse(row[K_blog1_title], BlogDefaultTitles[1])))
    @@ (K_blog2_slug :> slugify(OrElse(row[K_blog2_title], BlogDefaultTitles[2])))
    @@ (K_blog3_slug :> slugify(OrElse(row[K_blog3_title], BlogDefaultTitles[3])))

\* the other fields generateSite computes from the row alone
BasicFields(row) ==
    (K_primary_color :> OrElse(row[K_primary_color], DEFAULT_COLOR))
    @@ (K_brand_initial :> <<ToUpperChar(OrElse(row[K_brand_name], <<"S">>)[1])>>)
    @@ (K_blog_date :> TODAY)
    @@ (K_product_original_price_html :>
           OriginalPriceHTML(row[K_product_original_price]))
    @@ (K_product_features_html :> generateFeaturesHTML(row[K_product_features]))

\* data with the three schema documents, computed from data
WithSchemas(d) ==
    (K_homepage_schema :> generateOrganizationSchema(d))
    @@ (K_collection_schema :> generateCollectionSchema(d))
    @@ (K_product_schema :> generateProductSchema(d))
    @@ d

\* const data = { ...row } with the computed fields assigned
DerivedData(row) == WithSchemas(BasicFields(row) @@ SlugFields(row) @@ row)

\* the blog data array for cross-referencing
BlogsOf(d) ==
    [n \in 1..3 |->
        [slug |-> d[BlogSlugKeys[n]], title |-> d[BlogTitleKeys[n]],
         meta |-> d[BlogMetaKeys[n]], content |-> d[BlogContentKeys[n]]]]

\* data with HEADER and FOOTER: the shared templates are rendered with the
\* data as it is at that point, before the image paths are assigned
WithHeaderFooter(d, tp) ==
    (K_HEADER :> render(tp.header, d)) @@ (K_FOOTER :> render(tp.footer, d)) @@ d

\* data.domain.replace(/\./g, '-')
DomainSlug(domain) ==
    [k \in 1..Len(domain) |-> IF domain[k] = "." THEN "-" ELSE domain[k]]

\* path.join(...): the segments joined by a slash, empty segments left out
\* (no segment of the model holds a slash or is a dot segment)
PathJoin(parts) == Join(SelectSeq(parts, LAMBDA x : x # <<>>), <<"/">>)

\* path.join(OUTPUT_DIR, domainSlug)
SiteDir(domain) == PathJoin(<<OUTPUT_DIR, DomainSlug(domain)>>)

imageMap ==
    << <<K_image_hero, <<"h", "e", "r", "o">>>>,
       <<K_image_product_main, <<"p", "r", "o", "d", "u", "c", "t",
        "-", "m", "a", "i", "n">>>>,
       <<K_image_product_2, <<"p", "r", "o", "d", "u", "c", "t", "-", "2">>>>,
       <<K_image_product_3, <<"p", "r", "o", "d", "u", "c", "t", "-", "3">>>>,
       <<K_image_product_4, <<"p", "r", "o", "d", "u", "c", "t", "-", "4">>>>,
       <<K_image_product_5, <<"p", "r", "o", "d", "u", "c", "t", "-", "5">>>>,
       <<K_image_collection_1, <<"c", "o", "l", "l", "e", "c", "t",
        "i", "o", "n", "-", "1">>>>,
       <<K_image_collection_2, <<"c", "o", "l", "l", "e", "c", "t",
        "i", "o", "n", "-", "2">>>>,
       <<K_image_blog_hero, <<"b", "l", "o", "g", "-", "h", "e", "r", "o">>>> >>

ImageKeys == {imageMap[k][1] : k \in DOMAIN imageMap}

\* f.startsWith(prefix)
StartsWith(f, prefix) ==
    Len(f) >= Len(prefix) /\ SubSeq(f, 1, Len(prefix)) = prefix

\* resolveImagePaths(siteDir): files are the names readdirSync gives for the
\* site's images directory, none when the directory does not exist
resolveImagePaths(files) ==
    [key \in ImageKeys |->
        LET name == imageMap[CHOOSE k \in DOMAIN imageMap : imageMap[k][1] = key][2]
            found == SelectSeq(files, LAMBDA f : StartsWith(f, name \o <<".">>))
        IN  IF found # <<>>
            THEN <<"/", "i", "m", "a", "g", "e", "s", "/">> \o found[1]
            ELSE <<"/", "i", "m", "a", "g", "e", "s", "/">> \o name \o <<".", "j", "p", "g">>]

\* Object.assign(data, imagePaths)
WithImages(d, files) == resolveImagePaths(files) @@ d

\* the data of one blog page: { ...data } with the entry's fields
BlogData(d, blogs, n) ==
    (K_blog_title :> blogs[n].title)
    @@ (K_blog_slug :> blogs[n].slug)
    @@ (K_blog_meta_description :> blogs[n].meta)
    @@ (K_blog_content :> blogs[n].content)
    @@ (K_blog_schema :>
           generateArticleSchema(d, blogs[n].title, blogs[n].slug, blogs[n].meta))
    @@ (K_sidebar_related_articles :>
           generateRelatedArticlesHTML(blogs, blogs[n].slug, d[K_image_blog_hero]))
    @@ d

BlogPath(siteDir, slug) == PathJoin(<<siteDir, <<"b", "l", "o", "g">>, slug \o <<".", "h", "t", "m", "l">>>>)

\* the pages of the sitemap
SitemapPages(d, blogs) ==
    << <<"/">>,
       <<"/", "c", "o", "l", "l", "e", "c",
        "t", "i", "o", "n", "s", "/">> \o d[K_collection_slug] \o <<".", "h", "t", "m", "l">>,
       <<"/", "p", "r", "o", "d", "u", "c", "t", "s", "/">> \o d[K_product_slug] \o <<".", "h", "t", "m", "l">> >>
    \o SelectSeq([n \in 1..3 |-> IF blogs[n].title # <<>>
                                 THEN <<"/", "b", "l", "o", "g", "/">> \o blogs[n].slug \o <<".", "h", "t", "m", "l">>
                                 ELSE <<>>],
                 LAMBDA p : p # <<>>)

\* the writes of the home, collection and product pages
PageWrites(d, tp, siteDir) ==
    << [path |-> PathJoin(<<siteDir, <<"i", "n", "d", "e", "x", ".", "h", "t", "m", "l">>>>),
        content |-> render(tp.homepage, d)],
       [path |-> PathJoin(<<siteDir, <<"c", "o", "l", "l", "e", "c", "t",
        "i", "o", "n", "s">>,
                            d[K_collection_slug] \o <<".", "h", "t", "m", "l">>>>),
        content |-> render(tp.collection, d)],
       [path |-> PathJoin(<<siteDir, <<"p", "r", "o", "d", "u", "c", "t", "s">>, d[K_product_slug] \o <<".", "h", "t", "m", "l">>>>),
        content |-> render(tp.product, d)] >>

\* the writes of the loop over blogs: an entry without a title is skipped
BlogWrites(d, blogs, tp, siteDir) ==
    SelectSeq([n \in 1..3 |->
                  IF blogs[n].title # <<>>
                  THEN [path |-> BlogPath(siteDir, blogs[n].slug),
                        content |-> render(tp.blog, BlogData(d, blogs, n))]
                  ELSE [path |-> <<>>, content |-> <<>>]],
              LAMBDA w : w.path # <<>>)

\* the writes of the sitemap, robots.txt and the deployment files
AuxWrites(d, pages, siteDir) ==
    << [path |-> PathJoin(<<siteDir, <<"s", "i", "t", "e", "m", "a", "p",
        ".", "x", "m", "l">>>>),
        content |-> generateSitemap(d[K_domain], pages)],
       [path |-> PathJoin(<<siteDir, <<"r", "o", "b", "o", "t", "s", ".", "t", "x", "t">>>>),
        content |-> generateRobotsTxt(d[K_domain])],
       [path |-> PathJoin(<<siteDir, <<"s", "e", "r", "v", "e", "r", ".", "j", "s">>>>),
        content |-> generateServerJs],
       [path |-> PathJoin(<<siteDir, <<"p", "a", "c", "k", "a", "g", "e",
        ".", "j", "s", "o", "n">>>>),
        content |-> generatePackageJson(DomainSlug(d[K_domain]))] >>

\* the directories mkdirSync makes, recursively
SiteDirs(siteDir) ==
    { siteDir,
      PathJoin(<<siteDir, <<"c", "o", "l", "l", "e", "c", "t",
        "i", "o", "n", "s">>>>),
      PathJoin(<<siteDir, <<"p", "r", "o", "d", "u", "c", "t", "s">>>>),
      PathJoin(<<siteDir, <<"b", "l", "o", "g">>>>) }

\* what generateSite does with the data d, the blog array, the templates,
\* the site directory and the page list
SiteOf(d, blogs, tp, siteDir, pages) ==
    [ data |-> d,
      blogs |-> blogs,
      related |-> [n \in 1..3 |-> BlogData(d, blogs, n)[K_sidebar_related_articles]],
      pages |-> pages,
      mkdirs |-> SiteDirs(siteDir),
      writes |-> PageWrites(d, tp, siteDir) \o BlogWrites(d, blogs, tp, siteDir)
                 \o AuxWrites(d, pages, siteDir),
      result |-> [domain |-> d[K_domain], domainSlug |-> DomainSlug(d[K_domain]),
                  pages |-> Len(pages), siteDir |-> siteDir] ]

\* the data of generateSite when the pages are rendered
SiteData(row, tp, files) ==
    WithImages(WithHeaderFooter(DerivedData(row), tp), files)

\* generateSite with its data d
GenerateWith(d, tp) ==
    SiteOf(d, BlogsOf(d), tp, SiteDir(d[K_domain]), SitemapPages(d, BlogsOf(d)))

\* generateSite(row) with the templates tp and the image files found: the
\* data, the directories made and the files written, in the order of the
\* code, and the value returned
generateSite(row, tp, files) == GenerateWith(SiteData(row, tp, files), tp)

\* the file system after the first n of the writes
RECURSIVE WriteFiles(_, _, _)
WriteFiles(files, writes, n) ==
    IF n = 0 THEN files
    ELSE LET before == WriteFiles(files, writes, n - 1)
         IN  (writes[n].path :> writes[n].content) @@ before

-----------------------------------------------------------------------------
(* main *)

\* rows.filter(r => r.domain === filterDomain)
SelectRows(rs, fd) == SelectSeq(rs, LAMBDA r : r[K_domain] = fd)

\* the CSV file does not exist: console.error, process.exit(1)
MainCsvMissing ==
    /\ pc = "start"
    /\ ~csvExists
    /\ stderr' = Append(stderr, [kind |-> "csv-not-found"])
    /\ pc' = "exit"
    /\ exitCode' = 1
    /\ UNCHANGED <<csvExists, csvRows, filterDomain, tpls, imageFiles, rows,
                   rowIdx, results, stdout, fs, dirs, calls, site, nonMainVars>>

\* parseCSV finds fewer than two records and ends the process
MainParseExit ==
    /\ pc = "start"
    /\ csvExists
    /\ csvRows = <<>>
    /\ stdout' = Append(stdout, [kind |-> "reading"])
    /\ stderr' = Append(stderr, [kind |-> "csv-too-short"])
    /\ pc' = "exit"
    /\ exitCode' = 1
    /\ UNCHANGED <<csvExists, csvRows, filterDomain, tpls, imageFiles, rows,
                   rowIdx, results, fs, dirs, calls, site, nonMainVars>>

\* a seeded fault: a filter that matches no row is let through
MainFilterNoMatch_GoesOn ==
    /\ pc = "start"
    /\ csvExists
    /\ csvRows # <<>>
    /\ filterDomain # <<>>
    /\ SelectRows(csvRows, filterDomain) = <<>>
    /\ rows' = csvRows
    /\ rowIdx' = 1
    /\ pc' = "loop"
    /\ UNCHANGED <<csvExists, csvRows, filterDomain, tpls, imageFiles, exitCode,
                   results, stdout, stderr, fs, dirs, calls, site, nonMainVars>>

\* the domain filter matches no row: console.error, process.exit(1)
MainFilterNoMatch ==
    /\ pc = "start"
    /\ csvExists
    /\ csvRows # <<>>
    /\ filterDomain # <<>>
    /\ SelectRows(csvRows, filterDomain) = <<>>
    /\ rows' = <<>>
    /\ stdout' = Append(stdout, [kind |-> "reading"])
    /\ stderr' = Append(stderr, [kind |-> "no-rows-for-domain", domain |-> filterDomain])
    /\ pc' = "exit"
    /\ exitCode' = 1
    /\ UNCHANGED <<csvExists, csvRows, filterDomain, tpls, imageFiles,
                   rowIdx, results, fs, dirs, calls, site, nonMainVars>>

\* the rows are read and, with a filter, restricted; the loop starts
MainStartLoop ==
    /\ pc = "start"
    /\ csvExists
    /\ csvRows # <<>>
    /\ filterDomain # <<>> => SelectRows(csvRows, filterDomain) # <<>>
    /\ rows' = IF filterDomain # <<>> THEN SelectRows(csvRows, filterDomain) ELSE csvRows
    /\ rowIdx' = 1
    /\ stdout' = stdout \o <<[kind |-> "reading"],
                             [kind |-> "generating", count |-> Len(rows')]>>
    /\ pc' = "loop"
    /\ UNCHANGED <<csvExists, csvRows, filterDomain, tpls, imageFiles, exitCode,
                   results, stderr, fs, dirs, calls, site, nonMainVars>>

InLoop == pc = "loop" /\ rowIdx <= Len(rows)

\* the loop body when generateSite returns g for the row
LoopOk(row, g) ==
    /\ dirs' = dirs \cup g.mkdirs
    /\ fs' = WriteFiles(fs, g.writes, Len(g.writes))
    /\ site' = [row |-> row, data |-> g.data, blogs |-> g.blogs,
                related |-> g.related, pages |-> g.pages, result |-> g.result]
    /\ calls' = Append(calls, [row |-> row, threw |-> FALSE])
    /\ results' = Append(results, g.result)
    /\ stdout' = Append(stdout, [kind |-> "site", domain |-> g.result.domain,
                                 siteDir |-> g.result.siteDir,
                                 pages |-> g.result.pages])

\* one iteration of the loop in which generateSite returns
MainLoopOk ==
    /\ InLoop
    /\ LoopOk(rows[rowIdx], generateSite(rows[rowIdx], tpls, imageFiles))
    /\ rowIdx' = rowIdx + 1
    /\ UNCHANGED <<csvExists, csvRows, filterDomain, tpls, imageFiles, pc, rows,
                   exitCode, stderr, nonMainVars>>

\* where the model lets generateSite throw: reading a template (nothing is
\* made or written yet), making the first directory, writing the first file
\* and writing the last one
Failures ==
    { [at |-> "loadTemplate", message |-> "ENOENT"],
      [at |-> "mkdirSync", message |-> "EACCES"],
      [at |-> "writeFileSync:first", message |-> "ENOSPC"],
      [at |-> "writeFileSync:last", message |-> "ENOSPC"] }

\* the directories made and the writes done before the failure f
DoneBefore(g, f) ==
    CASE f.at = "loadTemplate" -> [mkdirs |-> {}, writes |-> 0]
      [] f.at = "mkdirSync" -> [mkdirs |-> {}, writes |-> 0]
      [] f.at = "writeFileSync:first" -> [mkdirs |-> g.mkdirs, writes |-> 0]
      [] f.at = "writeFileSync:last" ->
             [mkdirs |-> g.mkdirs, writes |-> Len(g.writes) - 1]

\* row.domain || 'unknown'
DomainOrUnknown(row) == OrElse(row[K_domain], <<"u", "n", "k", "n", "o", "w", "n">>)

\* what generateSite leaves behind when it throws at f: the directories made
\* and the files written before
Thrown(row, g, done) ==
    /\ dirs' = dirs \cup done.mkdirs
    /\ fs' = WriteFiles(fs, g.writes, done.writes)
    /\ calls' = Append(calls, [row |-> row, threw |-> TRUE])

\* a seeded fault: the error of one row is not caught and ends the run
MainLoopCatch_Rethrows ==
    /\ InLoop
    /\ \E f \in Failures :
        /\ Thrown(rows[rowIdx], generateSite(rows[rowIdx], tpls, imageFiles),
                  DoneBefore(generateSite(rows[rowIdx], tpls, imageFiles), f))
        /\ stderr' = Append(stderr, [kind |-> "uncaught", message |-> f.message])
    /\ pc' = "exit"
    /\ exitCode' = 1
    /\ UNCHANGED <<csvExists, csvRows, filterDomain, tpls, imageFiles, rows,
                   rowIdx, results, stdout, site, nonMainVars>>

\* a seeded fault: a failed row gets an entry of the results
MainLoopCatch_PushesFailure ==
    /\ InLoop
    /\ \E f \in Failures :
        /\ Thrown(rows[rowIdx], generateSite(rows[rowIdx], tpls, imageFiles),
                  DoneBefore(generateSite(rows[rowIdx], tpls, imageFiles), f))
        /\ stderr' = Append(stderr, [kind |-> "row-failed",
                                     domain |-> DomainOrUnknown(rows[rowIdx]),
                                     message |-> f.message])
        /\ results' = Append(results, [domain |-> DomainOrUnknown(rows[rowIdx]),
                                       domainSlug |-> <<>>, pages |-> 0,
                                       siteDir |-> <<>>, error |-> f.message])
    /\ rowIdx' = rowIdx + 1
    /\ UNCHANGED <<csvExists, csvRows, filterDomain, tpls, imageFiles, pc, rows,
                   exitCode, stdout, site, nonMainVars>>

\* one iteration of the loop in which generateSite throws: what it made and
\* wrote before stays, the error is caught and printed, the loop goes on
MainLoopCatch ==
    /\ InLoop
    /\ \E f \in Failures :
        /\ Thrown(rows[rowIdx], generateSite(rows[rowIdx], tpls, imageFiles),
                  DoneBefore(generateSite(rows[rowIdx], tpls, imageFiles), f))
        /\ stderr' = Append(stderr, [kind |-> "row-failed",
                                     domain |-> DomainOrUnknown(rows[rowIdx]),
                                     message |-> f.message])
    /\ rowIdx' = rowIdx + 1
    /\ UNCHANGED <<csvExists, csvRows, filterDomain, tpls, imageFiles, pc, rows,
                   exitCode, results, stdout, site, nonMainVars>>

\* the lines of the summary table, one per entry of results
SummaryTable(rs) ==
    [k \in 1..Len(rs) |->
        [kind |-> "summary-row", domain |-> rs[k].domain, pages |-> rs[k].pages,
         output |-> rs[k].domainSlug]]

\* after the loop: the count of generated sites and the summary table
MainSummary ==
    /\ pc = "loop"
    /\ rowIdx > Len(rows)
    /\ stdout' = stdout \o <<[kind |-> "done", count |-> Len(results)]>>
                        \o SummaryTable(results)
    /\ pc' = "done"
    /\ exitCode' = 0
    /\ UNCHANGED <<csvExists, csvRows, filterDomain, tpls, imageFiles, rows,
                   rowIdx, results, stderr, fs, dirs, calls, site, nonMainVars>>

-----------------------------------------------------------------------------
(* The runs of main *)

\* a row of the CSV: every column present, blank unless given
BlankRow == [c \in Columns |-> <<>>]

BaseRow ==
    (K_brand_name :> <<"B", "e", "e">>) @@ (K_primary_keyword :> <<"t", "e", "a">>)
    @@ (K_product_price :> <<"$", "5">>) @@ BlankRow

RowOfDomain(domain) == (K_domain :> domain) @@ BaseRow

\* the templates of the batch runs
BatchTemplates ==
    [header |-> <<"<", "h", ">", "{", "{", "b", "r",
        "a", "n", "d", "_", "n", "a", "m", "e", "}", "}", "<", "/",
        "h", ">">>,
     footer |-> <<"<", "f", ">">>,
     homepage |-> <<"{", "{", "H", "E", "A", "D", "E",
        "R", "}", "}", "{", "{", "d", "o", "m", "a", "i", "n", "}",
        "}", "{", "{", "F", "O", "O", "T", "E", "R", "}", "}">>,
     collection |-> <<"{", "{", "c", "o", "l", "l", "e",
        "c", "t", "i", "o", "n", "_", "s", "l", "u", "g", "}", "}">>,
     product |-> <<"{", "{", "p", "r", "o", "d", "u",
        "c", "t", "_", "p", "r", "i", "c", "e", "}", "}">>,
     blog |-> <<"{", "{", "b", "l", "o", "g", "_",
        "t", "i", "t", "l", "e", "}", "}">>]

\* the domains of the rows of the batch runs, <<>> for a blank cell
BatchDomains == { <<>>, <<"a", ".", "b">>, <<"a", "-", "b">>, <<"c", ".", "d">> }

\* the --domain arguments of the batch runs, <<>> for none
BatchFilters == { <<>>, <<"a", ".", "b">>, <<"c", ".", "d">>, <<"x", ".", "y">> }

RECURSIVE SeqsUpTo(_, _)
SeqsUpTo(S, n) ==
    IF n = 0 THEN {<<>>}
    ELSE LET shorter == SeqsUpTo(S, n - 1)
         IN  shorter \cup {Append(q, x) : q \in {r \in shorter : Len(r) = n - 1}, x \in S}

InitMain(exists, rs, fd, tp, files) ==
    /\ csvExists = exists
    /\ csvRows = rs
    /\ filterDomain = fd
    /\ tpls = tp
    /\ imageFiles = files
    /\ pc = "start"
    /\ rows = <<>>
    /\ rowIdx = 1
    /\ results = <<>>
    /\ stdout = <<>>
    /\ stderr = <<>>
    /\ exitCode = -1
    /\ fs = <<>>
    /\ dirs = {}
    /\ calls = <<>>
    /\ site = NoSite

Init ==
    /\ \E exists \in BOOLEAN, ds \in SeqsUpTo(BatchDomains, MaxRows), fd \in BatchFilters :
          /\ ~exists => (ds = <<>> /\ fd = <<>>)
          /\ InitMain(exists, [k \in 1..Len(ds) |-> RowOfDomain(ds[k])], fd,
                      BatchTemplates, <<>>)
    /\ IdleCSV
    /\ IdleRender
    /\ IdleSlug

Next ==
    \/ MainCsvMissing
    \/ MainParseExit
    \/ MainFilterNoMatch
    \/ MainStartLoop
    \/ MainLoopOk
    \/ MainLoopCatch
    \/ MainSummary

\* main on every CSV of up to MaxRows rows with domains of BatchDomains
Spec == Init /\ [][Next]_vars

\* the blog titles of the single-site runs
SiteTitles == { <<>>, <<"H", "i">>, <<"h", "i", "!">>, <<"Y", "o">> }

\* the shared header templates of the single-site runs
SiteHeaders == { <<"<", "h", ">">>, <<"{", "{", "b", "r", "a", "n", "d",
        "_", "n", "a", "m", "e", "}", "}">>, <<"{", "{", "i", "m", "a", "g", "e",
        "_", "h", "e", "r", "o", "}", "}">>, <<"{", "{", "n", "o", "p", "e", "}", "}">> }

\* the images directories of the single-site runs
SiteImageFiles == { <<>>, <<<<"h", "e", "r", "o", ".", "p", "n", "g">>>> }

\* the original prices of the single-site runs: none, a price, a number
\* that also occurs in the markup of the fragment, and the word of the marker
SitePrices == { <<>>, <<"$", "9">>, <<"1", "0">>, <<"S", "A", "L", "E">> }

SiteTemplates(header) ==
    [header |-> header,
     footer |-> <<"<", "f", ">", "{", "{", "b", "r",
        "a", "n", "d", "_", "i", "n", "i", "t", "i", "a", "l", "}",
        "}">>,
     homepage |-> <<"{", "{", "H", "E", "A", "D", "E",
        "R", "}", "}", "{", "{", "i", "m", "a", "g", "e", "_", "h",
        "e", "r", "o", "}", "}", "{", "{", "n", "o", "p", "e", "}",
        "}", "{", "{", "F", "O", "O", "T", "E", "R", "}", "}">>,
     collection |-> <<"{", "{", "H", "E", "A", "D", "E",
        "R", "}", "}", "{", "{", "c", "o", "l", "l", "e", "c", "t",
        "i", "o", "n", "_", "s", "l", "u", "g", "}", "}">>,
     product |-> <<"{", "{", "p", "r", "o", "d", "u",
        "c", "t", "_", "o", "r", "i", "g", "i", "n", "a", "l", "_",
        "p", "r", "i", "c", "e", "_", "h", "t", "m", "l", "}", "}",
        "{", "{", "F", "O", "O", "T", "E", "R", "}", "}">>,
     blog |-> <<"{", "{", "b", "l", "o", "g", "_",
        "t", "i", "t", "l", "e", "}", "}", ":", "{", "{", "s", "i",
        "d", "e", "b", "a", "r", "_", "r", "e", "l", "a", "t", "e",
        "d", "_", "a", "r", "t", "i", "c", "l", "e", "s", "}", "}">>]

SiteRow(t1, t2, t3, price) ==
    (K_blog1_title :> t1) @@ (K_blog2_title :> t2) @@ (K_blog3_title :> t3)
    @@ (K_product_original_price :> price) @@ RowOfDomain(<<"a", ".", "b">>)

InitSite ==
    /\ \E t1 \in SiteTitles, t2 \in SiteTitles, t3 \in SiteTitles,
          price \in SitePrices, header \in SiteHeaders, files \in SiteImageFiles :
          /\ price # <<>> => (t1 = <<>> /\ header = <<"<", "h", ">">>)
          /\ InitMain(TRUE, <<SiteRow(t1, t2, t3, price)>>, <<>>,
                      SiteTemplates(header), files)
    /\ IdleCSV
    /\ IdleRender
    /\ IdleSlug

NextSite ==
    \/ MainStartLoop
    \/ MainLoopOk
    \/ MainLoopCatch
    \/ MainSummary

\* main on a CSV of one row, over the blog titles, the header templates and
\* the images directories of the pools
SpecSite == InitSite /\ [][NextSite]_vars

-----------------------------------------------------------------------------
(* Serialization of a table, and the round trip through parseCSV *)

\* a field is quoted when it holds a comma, a quote or a newline
NeedsQuoting(f) == \E k \in 1..Len(f) : f[k] \in {",", Q, "\n"}

RECURSIVE DoubleQuotes(_)
DoubleQuotes(f) ==
    IF f = <<>> THEN <<>>
    ELSE (IF Head(f) = Q THEN <<Q, Q>> ELSE <<Head(f)>>) \o DoubleQuotes(Tail(f))

SerializeField(f) ==
    IF NeedsQuoting(f) THEN <<Q>> \o DoubleQuotes(f) \o <<Q>> ELSE f

SerializeRecord(rec) ==
    Join([k \in 1..Len(rec) |-> SerializeField(rec[k])], <<",">>)

Serialize(t) ==
    Join([k \in 1..Len(t) |-> SerializeRecord(t[k])], <<"\n">>)

\* the field values of the tables: empty, plain, with a leading blank, with
\* an embedded comma, quote and newline
FieldPool ==
    { <<>>, <<"a">>, <<"b">>, <<" ", "a">>,
      <<"a", ",", "b">>, <<Q, "a">>, <<"a", "\n", "b">> }

TableShapes ==
    {nm \in (1..MaxCells) \X (1..MaxCells) : nm[1] * (nm[2] + 1) <= MaxCells}

\* a header record and at least one data record of the same length: nm[1]
\* columns and nm[2] data records
Tables ==
    UNION { [1..(nm[2] + 1) -> [1..nm[1] -> FieldPool]] : nm \in TableShapes }

InitRoundTrip ==
    \E t \in Tables :
        /\ table = t
        /\ ParseEntry(Serialize(t))
        /\ IdleRender
    /\ IdleMain
    /\ IdleSlug

NextRoundTrip == ParseStep

\* parseCSV on the serialization of every table of Tables
SpecRoundTrip == InitRoundTrip /\ [][NextRoundTrip]_vars

ParseEnded == parsePc \in {"returned", "exit"}

\* the column names are distinct after trimming and no record is all blank
WellFormedTable(t) ==
    /\ \A k1, k2 \in 1..Len(t[1]) : Trim(t[1][k1]) = Trim(t[1][k2]) => k1 = k2
    /\ \A r \in 1..Len(t) : SomeNonBlank(t[r])

-----------------------------------------------------------------------------
(* Tables of ragged records, blank records among them, and their parsing *)

\* the record breaks a text may use
LineBreaks == { <<"\n">>, <<"\r", "\n">>, <<"\r">> }

\* the records of a table written one after the other, with the record
\* break br between them
SerializeWith(t, br) ==
    Join([k \in 1..Len(t) |-> SerializeRecord(t[k])], br)

\* the records of the tables: three blank ones (an empty line, a blank, an
\* empty and a blank field) and six others, of one to three fields, with
\* fields to trim, an empty field, a repeated field and a field of a quote
\* and a comma, which is written quoted
RecordPool ==
    { << <<>> >>,
      << <<" ">> >>,
      << <<>>, <<" ">> >>,
      << <<"a">> >>,
      << <<"a">>, <<"b">> >>,
      << <<" ", "a">>, <<>> >>,
      << <<"a">>, <<"a">> >>,
      << <<"b">>, <<>>, <<"a", " ">> >>,
      << <<Q, ",">> >> }

\* the tables of up to MaxRecords records of RecordPool
RecordTables == SeqsUpTo(RecordPool, MaxRecords)

InitRecords ==
    /\ \E t \in RecordTables, br \in LineBreaks :
          /\ table = t
          /\ ParseEntry(SerializeWith(t, br))
    /\ IdleRender
    /\ IdleMain
    /\ IdleSlug

NextRecords == ParseStep

\* parseCSV on every table of RecordTables written with every record break
SpecRecords == InitRecords /\ [][NextRecords]_vars

-----------------------------------------------------------------------------
(* The calls of slugify *)

\* slugify(slugIn) is called and returns
SlugifyCall ==
    /\ slugPc = "call"
    /\ slugOut' = slugify(slugIn)
    /\ slugPc' = "done"
    /\ UNCHANGED <<slugIn, nonSlugVars>>

\* the characters of the texts of SpecSlug: a lower-case and an upper-case
\* letter, a digit, a blank, a hyphen and a punctuation mark
SlugAlphabet == {"a", "B", "3", " ", "-", "!"}

\* the text of the example of slugify
SlugExample == <<"W", "o", "o", "d", "3", "n", " ",
                 "D", "o", "l", "l", " ", "H", "o", "u", "s", "e", " ", "K",
                 "i", "t", "s", "!", "!">>

InitSlug ==
    /\ slugIn \in TextsUpTo(SlugAlphabet, MaxSlugLen) \cup {SlugExample}
    /\ slugPc = "call"
    /\ slugOut = <<>>
    /\ IdleCSV
    /\ IdleRender
    /\ IdleMain

NextSlug == SlugifyCall

\* slugify on every text over SlugAlphabet up to MaxSlugLen and on the example
SpecSlug == InitSlug /\ [][NextSlug]_vars

-----------------------------------------------------------------------------
(* C6 *)

\* C6: in quoted mode a scan step starts no new field and no new record; a
\* comma, a newline and a carriage return are appended to the field as they
\* are and quoted mode stays; a doubled quote appends exactly one quote and
\* quoted mode stays; quoted mode ends only at a quote that is not doubled.
\* Outside quoted mode a comma ends the field and a record break ends the
\* record.
C6_QuotedModeIsLiteral ==
    [][ Scanning =>
          LET c == csvText[i] IN
          /\ inQuotes =>
               /\ fields' = fields /\ allRows' = allRows
               /\ c \in {",", "\n", "\r"} =>
                    field' = Append(field, c) /\ inQuotes' /\ i' = i + 1
               /\ (c = Q /\ CharAt(csvText, i + 1) = Q) =>
                    field' = Append(field, Q) /\ inQuotes' /\ i' = i + 2
               /\ ~inQuotes' =>
                    c = Q /\ CharAt(csvText, i + 1) # Q /\ field' = field
          /\ (~inQuotes /\ c = ",") =>
               fields' = Append(fields, field) /\ field' = <<>>
          /\ (~inQuotes /\ c \in {"\n", "\r"}) =>
               /\ fields' = <<>> /\ field' = <<>>
               /\ allRows' = PushRecord(allRows, Append(fields, field))
      ]_vars

\* C6 witness: still in quoted mode after a comma, a newline and a doubled
\* quote were read there: all three are in the one field, no field or record
\* was started
C6_Witness ==
    /\ parsePc = "scan" /\ inQuotes
    /\ field = <<",", "\n", Q>>
    /\ fields = <<>> /\ allRows = <<>>

-----------------------------------------------------------------------------
(* C7 *)

-----------------------------------------------------------------------------
(* C9 *)

\* the text from p to e is a token: two opening braces, one or more word
\* characters, two closing braces
IsToken(tpl, p, e) ==
    /\ 1 <= p /\ p + 4 <= e /\ e <= Len(tpl)
    /\ tpl[p] = "{" /\ tpl[p + 1] = "{"
    /\ tpl[e - 1] = "}" /\ tpl[e] = "}"
    /\ \A k \in (p + 2)..(e - 2) : tpl[k] \in WordChars

TokenSpans(tpl) ==
    {pe \in (1..Len(tpl)) \X (1..Len(tpl)) : IsToken(tpl, pe[1], pe[2])}

\* the template with every token that has a value in d replaced by that
\* value, put in as it is, and everything else left as it is: position by
\* position, a token's first position gives the value (or the token), its
\* other positions give nothing, any other position gives its character
Substituted(tpl, d) ==
    LET spans == TokenSpans(tpl)
        At(k) ==
            IF \E pe \in spans : pe[1] = k
            THEN LET pe == CHOOSE pe \in spans : pe[1] = k
                     key == SubSeq(tpl, pe[1] + 2, pe[2] - 2)
                 IN  IF key \in DOMAIN d THEN d[key] ELSE SubSeq(tpl, pe[1], pe[2])
            ELSE IF \E pe \in spans : pe[1] < k /\ k <= pe[2]
            THEN <<>>
            ELSE <<tpl[k]>>
    IN  Flatten([k \in 1..Len(tpl) |-> At(k)])

\* C9: the result of render is the template with every token whose
\* identifier has a value in data replaced by that value and every other
\* token, and all other text, unchanged; a value is put in as it is, so a
\* token inside a value is not expanded
C9_RenderSinglePass ==
    renderPc = "done" => rendered = Substituted(template, data)

\* C9 witness: {{a}} with a = "{{b}}" and b defined gives the literal {{b}},
\* the token {{b}} of the template gives b's value, and the token {{c}},
\* which has no value, is left
C9_Witness ==
    /\ renderPc = "done"
    /\ template = <<"{", "{", "a", "}", "}", "{", "{", "b", "}", "}",
                    "{", "{", "c", "}", "}">>
    /\ data = (<<"a">> :> <<"{", "{", "b", "}", "}">>) @@ (<<"b">> :> <<"Y">>)
    /\ rendered = <<"{", "{", "b", "}", "}", "Y", "{", "{", "c", "}", "}">>

-----------------------------------------------------------------------------
(* C1 *)

\* the positions of the blog entries other than n that have a title
OtherTitled(blogs, n) ==
    SelectSeq(<<1, 2, 3>>, LAMBDA m : m # n /\ blogs[m].title # <<>>)

\* the fragment that lists exactly the entries at the positions ms
FragmentOf(blogs, ms, blogImagePath) ==
    Join([k \in 1..Len(ms) |-> RelatedArticle(blogs[ms[k]], blogImagePath)], <<"\n">>)

\* C1: for every blog entry of the row with a non-empty title, the related
\* articles fragment of the entry's page lists exactly the other entries
\* that have a non-empty title, in input order, and never the entry itself
C1_RelatedListsOtherTitled ==
    site # NoSite =>
        \A n \in 1..3 :
            site.blogs[n].title # <<>> =>
                site.related[n] =
                    FragmentOf(site.blogs, OtherTitled(site.blogs, n),
                               site.data[K_image_blog_hero])

-----------------------------------------------------------------------------
(* C2 *)

\* C2: two rows whose domain fields are different strings are written to
\* different output directories
C2_DistinctDomainsDistinctDirs ==
    \A a \in 1..Len(results), b \in 1..Len(results) :
        results[a].domain # results[b].domain =>
            results[a].siteDir # results[b].siteDir

-----------------------------------------------------------------------------
(* C3 *)

\* the rows main selects: all of them, or with a filter those of the domain
Selected ==
    IF filterDomain # <<>> THEN SelectRows(csvRows, filterDomain) ELSE csvRows

\* C3: once the loop runs, generateSite has been invoked for the selected
\* rows before the position of the loop, in input order, whether the calls
\* returned or threw; the run never exits after a call; when it is done,
\* every selected row had its call
C3_FailureDoesNotAbort ==
    /\ pc \in {"loop", "done"} =>
          /\ rows = Selected
          /\ Len(calls) = rowIdx - 1
          /\ Len(calls) <= Len(rows)
          /\ \A k \in 1..Len(calls) : calls[k].row = rows[k]
    /\ pc = "done" => Len(calls) = Len(rows)
    /\ calls # <<>> => pc # "exit" /\ exitCode # 1

\* C3 witness: the run is done, the call of the first row threw and
\* the call of the row after it returned
C3_Witness ==
    /\ pc = "done"
    /\ Len(calls) >= 2
    /\ calls[1].threw
    /\ ~calls[2].threw

-----------------------------------------------------------------------------
(* C4 *)

\* the rows of the calls so far that returned, and of those that threw
RowsOf(cs, threw) ==
    LET sel == SelectSeq(cs, LAMBDA c : c.threw = threw)
    IN  [k \in 1..Len(sel) |-> sel[k].row]

\* the lines of the given kind
LinesOf(out, kind) == SelectSeq(out, LAMBDA l : l.kind = kind)

-----------------------------------------------------------------------------
(* C5 *)

\* C5: with a domain filter, when no parsed row has exactly that domain the
\* run exits with status 1 before any call of generateSite, nothing made or
\* written; otherwise generateSite is called only for rows of that domain,
\* and when the run is done for exactly those rows
C5_FilterSelectsExactly ==
    (filterDomain # <<>> /\ pc # "start") =>
        /\ SelectRows(csvRows, filterDomain) = <<>> =>
              /\ pc = "exit" /\ exitCode = 1
              /\ calls = <<>> /\ DOMAIN fs = {} /\ dirs = {}
        /\ \A k \in 1..Len(calls) : calls[k].row[K_domain] = filterDomain
        /\ pc = "done" =>
              [k \in 1..Len(calls) |-> calls[k].row] = SelectRows(csvRows, filterDomain)

\* C5 witness: rows were parsed, none has the domain of the filter, and the
\* run has exited
C5_Witness ==
    /\ filterDomain # <<>>
    /\ Len(csvRows) >= 2
    /\ SelectRows(csvRows, filterDomain) = <<>>
    /\ pc = "exit"

-----------------------------------------------------------------------------
(* C8 *)

\* the token of the identifier key
TokenOf(key) == <<"{", "{">> \o key \o <<"}", "}">>

\* the identifiers of the tokens of a template
TokenKeys(tpl) ==
    {SubSeq(tpl, pe[1] + 2, pe[2] - 2) : pe \in TokenSpans(tpl)}

\* the templates a page is put together from
TemplatesOf(page) == {tpls.header, tpls.footer, tpls[page]}

\* the file of a page of the last site
PagePath(page) ==
    CASE page = "homepage" -> PathJoin(<<site.result.siteDir, <<"i", "n", "d", "e", "x", ".", "h", "t", "m", "l">>>>)
      [] page = "collection" ->
             PathJoin(<<site.result.siteDir, <<"c", "o", "l", "l", "e", "c", "t",
        "i", "o", "n", "s">>,
                        site.data[K_collection_slug] \o <<".", "h", "t", "m", "l">>>>)
      [] page = "product" ->
             PathJoin(<<site.result.siteDir, <<"p", "r", "o", "d", "u", "c", "t", "s">>,
                        site.data[K_product_slug] \o <<".", "h", "t", "m", "l">>>>)

\* C8: in the home, collection and product pages written, a token of the
\* page's template or of the shared header and footer templates appears
\* verbatim only if its identifier is not a field of the augmented data
C8_TokensOfFieldsReplaced ==
    site # NoSite =>
        \A page \in {"homepage", "collection", "product"} :
            \A tpl \in TemplatesOf(page) :
                \A key \in TokenKeys(tpl) :
                    Includes(fs[PagePath(page)], TokenOf(key))
                        => key \notin DOMAIN site.data

-----------------------------------------------------------------------------
(* C10 *)

\* the files of the blog directory of the last site
BlogFiles ==
    {p \in DOMAIN fs :
        StartsWith(p, PathJoin(<<site.result.siteDir, <<"b", "l", "o", "g">>>>) \o <<"/">>)}

\* C10: the blog pages written are in one-to-one correspondence with the blog
\* entries that have a non-empty title, each entry with its own file
\* blog/<slug>.html, and the reported page count is 3 plus their number
C10_BlogPagesOneToOne ==
    site # NoSite =>
        LET titled == {n \in 1..3 : site.blogs[n].title # <<>>}
        IN  /\ \A n \in titled :
                  BlogPath(site.result.siteDir, site.blogs[n].slug) \in BlogFiles
            /\ Cardinality(BlogFiles) = Cardinality(titled)
            /\ site.result.pages = 3 + Cardinality(titled)

-----------------------------------------------------------------------------
(* C11 *)

\* the number of places of text where sub occurs
CountOccurrences(text, sub) ==
    Cardinality({p \in 1..(Len(text) - Len(sub) + 1) :
                    SubSeq(text, p, p + Len(sub) - 1) = sub})

\* f ends with suffix
EndsWith(f, suffix) ==
    /\ Len(f) >= Len(suffix)
    /\ SubSeq(f, Len(f) - Len(suffix) + 1, Len(f)) = suffix

\* the page files of the last site: the .html files under its directory
PageFiles ==
    {p \in DOMAIN fs : /\ StartsWith(p, site.result.siteDir \o <<"/">>)
                       /\ EndsWith(p, <<".", "h", "t", "m", "l">>)}

\* the address of a page file within its site: / for the home page, the
\* path below the site directory for the others
PageUrl(p) ==
    IF p = PagePath("homepage") THEN <<"/">>
    ELSE SubSeq(p, Len(site.result.siteDir) + 1, Len(p))

\* the priority the sitemap is to give a page file
PagePriority(p) ==
    IF p = PagePath("homepage") THEN <<"1", ".", "0">>
    ELSE IF p = PagePath("product") THEN <<"0", ".", "9">>
    ELSE <<"0", ".", "8">>

\* the sitemap written for the last site
SitemapFile == fs[PathJoin(<<site.result.siteDir, <<"s", "i", "t", "e", "m", "a", "p",
                                                    ".", "x", "m", "l">>>>)]

\* C11: the sitemap of a generated site holds one <url> entry per page file
\* written, each page file's address in exactly one entry, with priority 1.0
\* for the home page, 0.9 for the product page and 0.8 for the others
C11_SitemapOnePerPage ==
    site # NoSite =>
        /\ CountOccurrences(SitemapFile, <<"<", "u", "r", "l", ">">>) = Cardinality(PageFiles)
        /\ \A p \in PageFiles :
              /\ CountOccurrences(SitemapFile,
                     <<"<", "l", "o", "c", ">", "h", "t",
                       "t", "p", "s", ":", "/", "/">> \o site.data[K_domain] \o PageUrl(p) \o <<"<", "/", "l", "o", "c", ">">>) = 1
              /\ Includes(SitemapFile,
                     <<"<", "l", "o", "c", ">", "h", "t",
                       "t", "p", "s", ":", "/", "/">> \o site.data[K_domain] \o PageUrl(p) \o <<"<", "/", "l", "o", "c", ">">>
                     \o <<"\n", " ", " ", " ", " ", "<", "l",
                          "a", "s", "t", "m", "o", "d", ">">> \o TODAY \o <<"<", "/", "l", "a", "s", "t", "m", "o", "d", ">">>
                     \o <<"\n", " ", " ", " ", " ", "<", "c",
                          "h", "a", "n", "g", "e", "f", "r", "e", "q", ">", "w", "e",
                          "e", "k", "l", "y", "<", "/", "c", "h", "a", "n", "g", "e",
                          "f", "r", "e", "q", ">">>
                     \o <<"\n", " ", " ", " ", " ", "<", "p",
                          "r", "i", "o", "r", "i", "t", "y", ">">> \o PagePriority(p) \o <<"<", "/", "p", "r", "i", "o", "r",
                                                                      "i", "t", "y", ">">>)

-----------------------------------------------------------------------------
(* C12 *)

\* every field of the record is empty or holds white space only
IsBlankRecord(rec) ==
    \A k \in 1..Len(rec) : \A c \in 1..Len(rec[k]) : rec[k][c] \in WhiteSpace

\* the records of a table that are not all blank, in their order
Retained(t) == SelectSeq(t, LAMBDA rec : ~IsBlankRecord(rec))

\* C12: when parseCSV has ended on a text with fewer than two records that
\* are not all blank, it has ended the process with the fatal error and
\* returned no rows; on a text with at least two such records it has returned
\* one row per retained record after the header, with no error
C12_FewerThanTwoIsFatal ==
    ParseEnded =>
        /\ Len(Retained(table)) < 2 => (parsePc = "exit" /\ parsed = <<>>)
        /\ Len(Retained(table)) >= 2 =>
              (parsePc = "returned" /\ Len(parsed) = Len(Retained(table)) - 1)

\* C12 witness: a text of three records of which one alone is not blank has
\* ended in the fatal error
C12_Witness ==
    /\ parsePc = "exit"
    /\ Len(table) = 3
    /\ Len(Retained(table)) = 1
    /\ parsed = <<>>

-----------------------------------------------------------------------------
(* C13 *)

\* the column names of a table: the trimmed fields of its first retained record
HeaderOf(t) ==
    [k \in 1..Len(Retained(t)[1]) |-> Trim(Retained(t)[1][k])]

\* the r-th retained record after the header
DataRecord(t, r) == Retained(t)[r + 1]

\* the field of a record at a position, the empty string beyond its end
FieldAt(rec, k) == IF k <= Len(rec) THEN rec[k] ELSE <<>>

\* C13 as stated: every returned row has the column set of the header, and
\* the value of the i-th header column is the i-th field of the data record,
\* the empty string when the record is shorter
C13_PositionalExact ==
    parsePc = "returned" =>
        /\ Len(parsed) = Len(Retained(table)) - 1
        /\ \A r \in 1..Len(parsed) :
              /\ DOMAIN parsed[r] = Range(HeaderOf(table))
              /\ \A k \in 1..Len(HeaderOf(table)) :
                    parsed[r][HeaderOf(table)[k]] = FieldAt(DataRecord(table, r), k)

\* C13 amended: every returned row has the column set of the header; the
\* value of a column is the trimmed field of the data record at the position
\* of the last header column of that name, the empty string when the record
\* is shorter; a field beyond the header length gives no value
C13_PositionalTrimmedLastWins ==
    parsePc = "returned" =>
        /\ Len(parsed) = Len(Retained(table)) - 1
        /\ \A r \in 1..Len(parsed) :
              /\ DOMAIN parsed[r] = Range(HeaderOf(table))
              /\ \A k \in 1..Len(HeaderOf(table)) :
                    (\A j \in (k + 1)..Len(HeaderOf(table)) :
                        HeaderOf(table)[j] # HeaderOf(table)[k])
                    => parsed[r][HeaderOf(table)[k]]
                           = Trim(FieldAt(DataRecord(table, r), k))

\* C13 witness: rows were returned for a header with a repeated column name,
\* a data record with a field to trim and a data record shorter than the header
C13_Witness ==
    /\ parsePc = "returned"
    /\ \E j, k \in 1..Len(HeaderOf(table)) :
          j # k /\ HeaderOf(table)[j] = HeaderOf(table)[k]
    /\ \E r \in 1..Len(parsed) :
          \E k \in 1..Len(DataRecord(table, r)) :
              /\ k <= Len(HeaderOf(table))
              /\ Trim(DataRecord(table, r)[k]) # DataRecord(table, r)[k]
    /\ \E r \in 1..Len(parsed) :
          Len(DataRecord(table, r)) < Len(HeaderOf(table))

-----------------------------------------------------------------------------
(* C14 *)

\* C14: the records parseCSV has retained when it ends are the records of the
\* text that are not all blank, in input order, wherever the blank ones stood;
\* the column names of the rows are the trimmed fields of the first of them
\* and the rows are made from the ones after it; and a step at a carriage
\* return followed by a line feed passes both and ends one record
C14_BlankRecordsDropped ==
    /\ [](ParseEnded =>
             /\ allRows = Retained(table)
             /\ \A r \in 1..Len(allRows) : ~IsBlankRecord(allRows[r])
             /\ parsePc = "returned" =>
                   /\ Len(parsed) = Len(allRows) - 1
                   /\ \A r \in 1..Len(parsed) :
                         DOMAIN parsed[r] = {Trim(allRows[1][k]) : k \in 1..Len(allRows[1])})
    /\ [][(Scanning /\ ~inQuotes /\ csvText[i] = "\r" /\ CharAt(csvText, i + 1) = "\n") =>
             /\ i' = i + 2
             /\ Len(allRows') <= Len(allRows) + 1
             /\ fields' = <<>> /\ field' = <<>>
         ]_vars

\* C14 witness: rows were returned for a text of three records, written with
\* \r\n between them, of which one is blank
C14_Witness ==
    /\ parsePc = "returned"
    /\ Len(table) = 3
    /\ \E r \in 1..3 : IsBlankRecord(table[r])
    /\ Includes(csvText, <<"\r", "\n">>)
    /\ Len(allRows) = 2

-----------------------------------------------------------------------------
(* C15 *)

\* the positions of the lowercased text that hold a character of [a-z0-9]
KeptPositions(text) ==
    {k \in 1..Len(text) : toLowerCase(text)[k] \in Range(LowerChars) \cup Digits}

\* the j-th smallest element of a set of numbers
NthOf(S, j) == CHOOSE x \in S : Cardinality({y \in S : y <= x}) = j

\* the lowercased text with every maximal run of characters outside [a-z0-9]
\* replaced by one hyphen and the hyphens at both ends removed: the kept
\* characters in their order, with a hyphen between two of them that are
\* not neighbours in the text
Slugged(text) ==
    Flatten([j \in 1..Cardinality(KeptPositions(text)) |->
                (IF j > 1 /\ NthOf(KeptPositions(text), j)
                                 > NthOf(KeptPositions(text), j - 1) + 1
                 THEN <<"-">> ELSE <<>>)
                \o <<toLowerCase(text)[NthOf(KeptPositions(text), j)]>>])

\* C15: what slugify returns is the lowercased text with every maximal run
\* of characters outside [a-z0-9] replaced by a single hyphen and leading and
\* trailing hyphens removed; it holds only characters of [a-z0-9-], neither
\* starts nor ends with a hyphen and has no two hyphens in a row; the empty
\* text gives the empty text, and the example gives wood3n-doll-house-kits
C15_SlugifyContract ==
    slugPc = "done" =>
        /\ slugOut = Slugged(slugIn)
        /\ \A k \in 1..Len(slugOut) :
              slugOut[k] \in Range(LowerChars) \cup Digits \cup {"-"}
        /\ slugOut # <<>> => (slugOut[1] # "-" /\ slugOut[Len(slugOut)] # "-")
        /\ \A k \in 1..(Len(slugOut) - 1) : ~(slugOut[k] = "-" /\ slugOut[k + 1] = "-")
        /\ slugIn = <<>> => slugOut = <<>>
        /\ slugIn = SlugExample => slugOut = <<"w", "o", "o", "d", "3", "n", "-",
                                               "d", "o", "l", "l", "-", "h", "o", "u", "s", "e", "-", "k",
                                               "i", "t", "s">>

\* C15 witness: slugify has returned for a text that starts with a run of
\* two characters outside [a-z0-9], has an upper-case letter and ends outside
\* [a-z0-9]; the result is the letter in lower case alone
C15_Witness ==
    /\ slugPc = "done"
    /\ slugIn = <<"!", " ", "B", "-">>
    /\ slugOut = <<"b">>

-----------------------------------------------------------------------------
(* C16 *)

\* the original price of the row of the last site, and its fragment
OriginalPrice == site.data[K_product_original_price]
PriceFragment == site.data[K_product_original_price_html]

\* C16: the fragment of a generated site is empty when the original price of
\* its row is empty; otherwise it is one paragraph element, whose content is
\* the price, followed by one SALE marker element, and the product page
\* holds it
C16_SaleFragment ==
    site # NoSite =>
        /\ OriginalPrice = csvRows[1][K_product_original_price]
        /\ OriginalPrice = <<>> => PriceFragment = <<>>
        /\ OriginalPrice # <<>> =>
              /\ CountOccurrences(PriceFragment, <<"<", "p", " ">>) = 1
              /\ CountOccurrences(PriceFragment, <<"<", "s", "p", "a", "n", " ">>) = 1
              /\ CountOccurrences(PriceFragment, <<">">> \o OriginalPrice \o <<"<", "/", "p", ">">>) = 1
              /\ CountOccurrences(PriceFragment, <<">", "S", "A", "L", "E", "<", "/",
                                                   "s", "p", "a", "n", ">">>) = 1
              /\ StartsWith(PriceFragment, <<"<", "p", " ">>)
              /\ EndsWith(PriceFragment, <<">", "S", "A", "L", "E", "<", "/",
                                           "s", "p", "a", "n", ">">>)
        /\ StartsWith(fs[PagePath("product")], PriceFragment)

\* C16 witness: a site was generated from a row whose original price is $9,
\* and its product page shows the price struck through before the marker
C16_Witness ==
    /\ site # NoSite
    /\ csvRows[1][K_product_original_price] = <<"$", "9">>
    /\ Includes(fs[PagePath("product")], <<"l", "i", "n", "e", "-", "t", "h",
                                           "r", "o", "u", "g", "h", "\"", ">", "$", "9", "<", "/", "p",
                                           ">">>)
    /\ Includes(fs[PagePath("product")], <<">", "S", "A", "L", "E", "<", "/",
                                           "s", "p", "a", "n", ">">>)

=============================================================================
